---------------------------- MODULE Spec2Model ----------------------------
(***************************************************************************)
(* A model of the ACT chain node core: the StateManager (account ledger    *)
(* with its two read caches and the durable store behind it), the Mempool  *)
(* (admission and block-candidate selection) and the ConsensusEngine       *)
(* (validator set and proposer selection).                                 *)
(*                                                                         *)
(* HashMaps are functions whose DOMAIN is the key set; Vec and VecDeque    *)
(* are sequences.  Every operation of the code is a pure operator on a     *)
(* ledger record ("s") that returns the new record and the result, so the  *)
(* atomic actions and the lock-granular steps share one translation.       *)
(***************************************************************************)
EXTENDS Integers, Sequences, FiniteSets, TLC

VARIABLES
    accounts,        \* StateManager.accounts : HashMap<String, Account>
    storage,         \* the account_<address> records of BlockchainStorage
    balance_cache,   \* StateManager.balance_cache : address -> CacheEntry
    nonce_cache,     \* StateManager.nonce_cache   : address -> CacheEntry
    now,             \* Instant::now(), in whole seconds
    overflow_checks, \* the build: TRUE = overflow panics, FALSE = it wraps
    poisoned,        \* the accounts RwLock was poisoned by a panic
    last,            \* the last completed call: its arguments and its result
    pc,              \* concurrent callers: where each one is in its call
    loc,             \* concurrent callers: the call's locals and result
    inc_started,     \* increment_nonce calls begun by concurrent callers
    inc_done,        \* increment_nonce calls that have returned Ok
    pending,         \* Mempool.pending : address -> VecDeque<Transaction>
    by_hash,         \* Mempool.by_hash : tx hash -> Transaction
    mp_lock,         \* the writer holding each of the two Mempool RwLocks
    validator_set,   \* ConsensusState.validator_set : Vec<Validator>
    current_height,  \* ConsensusState.current_height
    current_proposer,  \* ConsensusState.current_proposer
    finalized_height,  \* ConsensusState.finalized_height
    pending_proposals, \* ConsensusEngine.pending_proposals : height -> proposal
    votes,           \* ConsensusEngine.votes : height -> Vec<Vote>
    finalized_blocks,  \* ConsensusEngine.finalized_blocks : VecDeque<u64>
    selected,        \* history: the first select_proposer call on the
                     \* validator set and height of the latest call
    block_height     \* the node's engine (src/consensus/src/lib.rs):
                     \* ConsensusState.block_height

ledgerVars == <<accounts, storage, balance_cache, nonce_cache, now,
                overflow_checks, poisoned>>

-----------------------------------------------------------------------------
(* Bounds of the model *)

\* ActAmount is u128; the model keeps the arithmetic and scales the width.
AmountBits == 16
AmountModulus == 2 ^ AmountBits
AmountMax == AmountModulus - 1
\* One quarter of the amount range: the grain of the ledger inputs.
Unit == AmountModulus \div 4

\* increment_nonce is taken at most up to this account nonce.
NonceMax == 1
\* The clock is advanced at most to this second.
MaxTime == 6

Addr == {"A", "B", "C"}
\* The addresses the model sends from and reads the balance of.
Senders == {"A", "B"}
Readers == {"A", "B"}
\* The addresses whose nonce the model reads and increments.
NonceUsers == {"A"}
\* The concurrent callers.
Threads == {"t1", "t2"}

\* Duration::from_secs(5), the time-to-live of both caches.
CacheTtl == 5

-----------------------------------------------------------------------------
(* HashMap helpers *)

Empty == [x \in {} |-> 0]

\* HashMap::insert
Put(m, k, v) == [x \in (DOMAIN m) \cup {k} |-> IF x = k THEN v ELSE m[x]]

\* HashMap::remove
Remove(m, k) == [x \in (DOMAIN m) \ {k} |-> m[x]]

-----------------------------------------------------------------------------
(* types::Account and the ledger record *)

\* Account::new: zero balance, zero nonce
AccountNew == [balance |-> 0, nonce |-> 0]

\* accounts.get(a).cloned().unwrap_or_else(|| Account::new(a))
GetOrNew(accts, a) == IF a \in DOMAIN accts THEN accts[a] ELSE AccountNew

\* The ledger as the pure operators see it.
SM == [accounts |-> accounts, storage |-> storage,
       balance_cache |-> balance_cache, nonce_cache |-> nonce_cache]

SetSM(s) ==
    /\ accounts' = s.accounts
    /\ storage' = s.storage
    /\ balance_cache' = s.balance_cache
    /\ nonce_cache' = s.nonce_cache

\* CacheEntry::new(value, ttl) at time t
CacheEntryNew(value, t) == [value |-> value, expires_at |-> t + CacheTtl]

\* CacheEntry::is_expired at time t
is_expired(entry, t) == t > entry.expires_at

\* save_account_to_storage, the store_state call succeeding
save_account_to_storage(s, a, account) ==
    [s EXCEPT !.storage = Put(s.storage, a, account)]

\* get_account: the in-memory entry, else the persisted record (which it
\* inserts into the map), else a fresh account that is not inserted.
\* The part under the read lock: where the account is found.
account_lookup(s, a) ==
    IF a \in DOMAIN s.accounts
    THEN [found |-> "memory", val |-> s.accounts[a]]
    ELSE IF a \in DOMAIN s.storage
         THEN [found |-> "storage", val |-> s.storage[a]]
         ELSE [found |-> "new", val |-> AccountNew]

\* The part under the write lock: the loaded record goes into the map.
account_insert(s, a, account) ==
    [s EXCEPT !.accounts = Put(s.accounts, a, account)]

get_account(s, a) ==
    LET l == account_lookup(s, a)
    IN  IF l.found = "storage"
        THEN [s |-> account_insert(s, a, l.val), val |-> l.val]
        ELSE [s |-> s, val |-> l.val]

\* get_balance, first block: a cache entry that has not expired is served.
balance_cache_hit(s, a, t) ==
    a \in DOMAIN s.balance_cache /\ ~is_expired(s.balance_cache[a], t)

\* get_balance, last block: the cache is filled with what was read.
balance_cache_fill(s, a, value, t) ==
    [s EXCEPT !.balance_cache = Put(s.balance_cache, a, CacheEntryNew(value, t))]

get_balance(s, a, t) ==
    IF balance_cache_hit(s, a, t)
    THEN [s |-> s, val |-> s.balance_cache[a].value]
    ELSE LET r == get_account(s, a)
         IN  [s |-> balance_cache_fill(r.s, a, r.val.balance, t),
              val |-> r.val.balance]

\* get_nonce, first block
nonce_cache_hit(s, a, t) ==
    a \in DOMAIN s.nonce_cache /\ ~is_expired(s.nonce_cache[a], t)

\* get_nonce, last block
nonce_cache_fill(s, a, value, t) ==
    [s EXCEPT !.nonce_cache = Put(s.nonce_cache, a, CacheEntryNew(value, t))]

get_nonce(s, a, t) ==
    IF nonce_cache_hit(s, a, t)
    THEN [s |-> s, val |-> s.nonce_cache[a].value]
    ELSE LET r == get_account(s, a)
         IN  [s |-> nonce_cache_fill(r.s, a, r.val.nonce, t),
              val |-> r.val.nonce]

\* invalidate_cache, first block
invalidate_balance(s, a) ==
    [s EXCEPT !.balance_cache = Remove(s.balance_cache, a)]

\* invalidate_cache, second block
invalidate_nonce(s, a) ==
    [s EXCEPT !.nonce_cache = Remove(s.nonce_cache, a)]

invalidate_cache(s, a) == invalidate_nonce(invalidate_balance(s, a), a)

-----------------------------------------------------------------------------
(* transfer *)

\* A transfer without its balance check.
transfer_refused_never(from_balance, amount) == FALSE

\* The balance check of transfer: the call is refused.
transfer_refused(from_balance, amount) == from_balance < amount

\* from_account.balance -= amount, as u128
debit(balance, amount) == (balance - amount + AmountModulus) % AmountModulus

\* to_account.balance += amount, as u128 in a build without overflow checks
credit(balance, amount) == (balance + amount) % AmountModulus

\* The two entries transfer writes back, in the order it writes them:
\* both accounts are cloned before either is changed.
transfer_entries(accts, from, to, amount) ==
    LET from_account == GetOrNew(accts, from)
        to_account == GetOrNew(accts, to)
        from_after == [from_account EXCEPT !.balance = debit(@, amount)]
        to_after == [to_account EXCEPT !.balance = credit(@, amount)]
    IN  [from |-> from_after, to |-> to_after,
         map |-> Put(Put(accts, from, from_after), to, to_after)]

\* transfer(from, to, amount).  okFrom and okTo are the outcomes of the two
\* save_account_to_storage calls; checks is the build's overflow checking.
transfer(s, from, to, amount, okFrom, okTo, checks) ==
    LET from_account == GetOrNew(s.accounts, from)
        to_account == GetOrNew(s.accounts, to)
        e == transfer_entries(s.accounts, from, to, amount)
        s1 == [s EXCEPT !.accounts = e.map]
        s2 == save_account_to_storage(s1, from, e.from)
        s3 == save_account_to_storage(s2, to, e.to)
    IN  IF transfer_refused(from_account.balance, amount)
        THEN [s |-> s, res |-> "InsufficientBalance"]
        ELSE IF checks /\ to_account.balance + amount > AmountMax
        THEN [s |-> s, res |-> "Panic"]
        ELSE IF ~okFrom THEN [s |-> s1, res |-> "StorageError"]
        ELSE IF ~okTo THEN [s |-> s2, res |-> "StorageError"]
        ELSE [s |-> invalidate_cache(invalidate_cache(s3, from), to),
              res |-> "Ok"]

\* increment_nonce(address); ok is the outcome of save_account_to_storage.
\* The part under the accounts write lock: account.nonce += 1.
incremented(accts, a) == [GetOrNew(accts, a) EXCEPT !.nonce = @ + 1]

increment_nonce(s, a, ok) ==
    LET account == incremented(s.accounts, a)
        s1 == account_insert(s, a, account)
        s2 == save_account_to_storage(s1, a, account)
    IN  IF ~ok THEN [s |-> s1, res |-> "StorageError"]
        ELSE [s |-> invalidate_cache(s2, a), res |-> "Ok"]

\* get_total_supply: the sum of all balances in the account map
RECURSIVE SumBalances(_, _)
SumBalances(accts, S) ==
    IF S = {} THEN 0
    ELSE LET a == CHOOSE x \in S : TRUE
         IN  accts[a].balance + SumBalances(accts, S \ {a})

get_total_supply(accts) == SumBalances(accts, DOMAIN accts)


\* initialize_genesis: every listed account is inserted with nonce 0 and
\* persisted; failAt is the index whose store_state call fails (0: none).
RECURSIVE initialize_genesis_from(_, _, _, _)
initialize_genesis_from(s, genesis_accounts, i, failAt) ==
    IF i > Len(genesis_accounts) THEN [s |-> s, res |-> "Ok"]
    ELSE LET g == genesis_accounts[i]
             account == [balance |-> g.balance, nonce |-> 0]
             s1 == [s EXCEPT !.accounts = Put(s.accounts, g.address, account)]
         IN  IF i = failAt THEN [s |-> s1, res |-> "StorageError"]
             ELSE initialize_genesis_from(
                      save_account_to_storage(s1, g.address, account),
                      genesis_accounts, i + 1, failAt)

initialize_genesis(s, genesis_accounts, failAt) ==
    initialize_genesis_from(s, genesis_accounts, 1, failAt)

-----------------------------------------------------------------------------
(* The StateManager operations as atomic actions (one caller at a time) *)

\* What the durable store may hold when the node starts.
InitialStorage == {Empty, [x \in {"A"} |-> [balance |-> Unit, nonce |-> 1]]}

\* The genesis lists the model initialises with.
GenesisLists ==
    { <<[address |-> "A", balance |-> 2 * Unit]>>,
      <<[address |-> "A", balance |-> 3 * Unit],
        [address |-> "B", balance |-> 3 * Unit]>> }

\* The amounts the model transfers.
TransferAmounts == {0, Unit, 2 * Unit}

Call(op, from, to, amount, res) ==
    [op |-> op, from |-> from, to |-> to, amount |-> amount, res |-> res]

\* A read leaves no more than its name.
Read(op) == Call(op, "", "", 0, "Ok")

LedgerInit ==
    /\ accounts = Empty
    /\ storage \in InitialStorage
    /\ balance_cache = Empty
    /\ nonce_cache = Empty
    /\ now = 0
    /\ overflow_checks \in BOOLEAN
    /\ poisoned = FALSE
    /\ last = Call("new", "", "", 0, "Ok")

\* main calls initialize_genesis once, right after StateManager::new.
\* FailAts: the store_state calls that may fail (0: none does).
\* when: the states in which the caller initialises.
InitializeGenesisWhen(when, FailAts) ==
    \E g \in GenesisLists, failAt \in FailAts :
        /\ when
        /\ failAt <= Len(g)
        /\ LET r == initialize_genesis(SM, g, failAt)
           IN  /\ SetSM(r.s)
               /\ last' = Call("initialize_genesis", "", "", 0, r.res)
        /\ UNCHANGED <<now, overflow_checks, poisoned>>

\* The node initialises right after StateManager::new.
InitializeGenesis(FailAts) == InitializeGenesisWhen(last.op = "new", FailAts)

GetAccount ==
    \E a \in Readers :
        /\ ~poisoned
        /\ LET r == get_account(SM, a)
           IN  /\ SetSM(r.s)
               /\ last' = Read("read")
        /\ UNCHANGED <<now, overflow_checks, poisoned>>

GetBalanceOf(Addrs) ==
    \E a \in Addrs :
        /\ ~poisoned \/ balance_cache_hit(SM, a, now)
        /\ LET r == get_balance(SM, a, now)
           IN  /\ SetSM(r.s)
               /\ last' = Read("read")
        /\ UNCHANGED <<now, overflow_checks, poisoned>>

GetBalance == GetBalanceOf(Readers)

GetNonce ==
    \E a \in NonceUsers :
        /\ ~poisoned \/ nonce_cache_hit(SM, a, now)
        /\ LET r == get_nonce(SM, a, now)
           IN  /\ SetSM(r.s)
               /\ last' = Read("read")
        /\ UNCHANGED <<now, overflow_checks, poisoned>>

\* Outcomes: what a store_state call may return (TRUE: Ok).
TransferOf(Froms, Tos, Amounts, Outcomes) ==
    \E from \in Froms, to \in Tos, amount \in Amounts,
       okFrom \in Outcomes, okTo \in Outcomes :
        /\ ~poisoned
        /\ LET r == transfer(SM, from, to, amount, okFrom, okTo, overflow_checks)
           IN  /\ SetSM(r.s)
               /\ poisoned' = (r.res = "Panic")
               /\ last' = Call("transfer", from, to, amount, r.res)
        /\ UNCHANGED <<now, overflow_checks>>

Transfer(Outcomes) == TransferOf(Senders, Addr, TransferAmounts, Outcomes)

IncrementNonce(Outcomes) ==
    \E a \in NonceUsers, ok \in Outcomes :
        /\ ~poisoned
        /\ GetOrNew(accounts, a).nonce < NonceMax
        /\ LET r == increment_nonce(SM, a, ok)
           IN  /\ SetSM(r.s)
               /\ last' = Call("increment_nonce", a, "", 0, r.res)
        /\ UNCHANGED <<now, overflow_checks, poisoned>>

\* Time passes: d seconds.
Advance(d) ==
    /\ now + d <= MaxTime
    /\ now' = now + d
    /\ last' = Read("advance")
    /\ UNCHANGED <<accounts, storage, balance_cache, nonce_cache,
                   overflow_checks, poisoned>>

callerVars == <<pc, loc, inc_started, inc_done>>

mempoolVars == <<pending, by_hash, mp_lock>>

consensusVars == <<validator_set, current_height, current_proposer,
                   finalized_height, pending_proposals, votes,
                   finalized_blocks, selected, block_height>>

\* What the callers of the state manager leave alone.
engineVars == <<mempoolVars, consensusVars>>

\* What a call of the state manager by a single caller leaves alone.
nonLedgerVars == <<callerVars, mempoolVars, consensusVars>>

vars == <<accounts, storage, balance_cache, nonce_cache, now,
          overflow_checks, poisoned, last, pc, loc, inc_started, inc_done,
          pending, by_hash, mp_lock, validator_set, current_height,
          current_proposer, finalized_height, pending_proposals, votes,
          finalized_blocks, selected, block_height>>

\* ConsensusEngine::with_config
ConsensusInit ==
    /\ validator_set = <<>>
    /\ current_height = 0
    /\ current_proposer = ""
    /\ finalized_height = 0
    /\ pending_proposals = Empty
    /\ votes = Empty
    /\ finalized_blocks = <<>>
    /\ selected = [height |-> 0, validator_set |-> <<>>, at_height |-> 0,
                   res |-> [res |-> "none", val |-> ""]]
    /\ block_height = 0

\* Mempool::new
MempoolInit ==
    /\ pending = Empty
    /\ by_hash = Empty
    /\ mp_lock = [pending |-> "none", by_hash |-> "none"]

\* No call is in progress.
Idle == [op |-> "none", a |-> "", acct |-> AccountNew, res |-> 0,
         done_at_start |-> 0, at |-> 0]

CallersInit ==
    /\ pc = [t \in Threads |-> "idle"]
    /\ loc = [t \in Threads |-> Idle]
    /\ inc_started = 0
    /\ inc_done = 0

Init == LedgerInit /\ CallersInit /\ MempoolInit /\ ConsensusInit

\* The ledger with a durable store that accepts every write.
Next ==
    \/ InitializeGenesis({0}) /\ UNCHANGED nonLedgerVars
    \/ GetBalance /\ UNCHANGED nonLedgerVars
    \/ GetNonce /\ UNCHANGED nonLedgerVars
    \/ Transfer({TRUE}) /\ UNCHANGED nonLedgerVars
    \/ IncrementNonce({TRUE}) /\ UNCHANGED nonLedgerVars
    \/ Advance(CacheTtl + 1) /\ UNCHANGED nonLedgerVars

Spec == Init /\ [][Next]_vars

-----------------------------------------------------------------------------
(* get_nonce and increment_nonce run by concurrent callers.  A step is one  *)
(* critical section: the code between taking a lock and dropping it.  A    *)
(* call begins with its first critical section.                            *)

Free(t) == pc[t] \in {"idle", "done"}

Goto(t, label, l) ==
    /\ pc' = [pc EXCEPT ![t] = label]
    /\ loc' = [loc EXCEPT ![t] = l]

\* get_nonce: the nonce_cache read lock.  A live entry is returned.
GnLookup(t) ==
    \E a \in NonceUsers :
        /\ Free(t)
        /\ LET l == [op |-> "get_nonce", a |-> a, acct |-> AccountNew,
                     res |-> 0, done_at_start |-> inc_done, at |-> 0]
           IN  IF nonce_cache_hit(SM, a, now)
               THEN Goto(t, "done", [l EXCEPT !.res = nonce_cache[a].value,
                                              !.at = now])
               ELSE Goto(t, "gn_account", l)
        /\ UNCHANGED <<ledgerVars, last, inc_started, inc_done>>

\* get_nonce -> get_account: the accounts read lock (held over the load
\* from storage).
GnAccount(t) ==
    /\ pc[t] = "gn_account"
    /\ LET l == account_lookup(SM, loc[t].a)
       IN  Goto(t, IF l.found = "storage" THEN "gn_insert" ELSE "gn_fill",
                [loc[t] EXCEPT !.acct = l.val])
    /\ UNCHANGED <<ledgerVars, last, inc_started, inc_done>>

\* get_nonce -> get_account: the accounts write lock, taken after the read
\* lock was dropped; the loaded record is inserted.
GnInsert(t) ==
    /\ pc[t] = "gn_insert"
    /\ SetSM(account_insert(SM, loc[t].a, loc[t].acct))
    /\ Goto(t, "gn_fill", loc[t])
    /\ UNCHANGED <<now, overflow_checks, poisoned, last, inc_started, inc_done>>

\* get_nonce: the nonce_cache write lock.  The nonce read is cached and
\* returned.
GnFill(t) ==
    /\ pc[t] = "gn_fill"
    /\ SetSM(nonce_cache_fill(SM, loc[t].a, loc[t].acct.nonce, now))
    /\ Goto(t, "done", [loc[t] EXCEPT !.res = loc[t].acct.nonce, !.at = now])
    /\ UNCHANGED <<now, overflow_checks, poisoned, last, inc_started, inc_done>>

\* increment_nonce: the accounts write lock.
InUpdate(t) ==
    \E a \in NonceUsers :
        /\ Free(t)
        /\ inc_started < NonceMax
        /\ LET account == incremented(accounts, a)
           IN  /\ SetSM(account_insert(SM, a, account))
               /\ Goto(t, "in_save",
                       [op |-> "increment_nonce", a |-> a, acct |-> account,
                        res |-> 0, done_at_start |-> inc_done, at |-> now])
        /\ inc_started' = inc_started + 1
        /\ UNCHANGED <<now, overflow_checks, poisoned, last, inc_done>>

\* increment_nonce: save_account_to_storage, no lock held.
InSave(t) ==
    /\ pc[t] = "in_save"
    /\ SetSM(save_account_to_storage(SM, loc[t].a, loc[t].acct))
    /\ Goto(t, "in_inv_balance", loc[t])
    /\ UNCHANGED <<now, overflow_checks, poisoned, last, inc_started, inc_done>>

\* increment_nonce -> invalidate_cache: the balance_cache write lock.
InInvBalance(t) ==
    /\ pc[t] = "in_inv_balance"
    /\ SetSM(invalidate_balance(SM, loc[t].a))
    /\ Goto(t, "in_inv_nonce", loc[t])
    /\ UNCHANGED <<now, overflow_checks, poisoned, last, inc_started, inc_done>>

\* increment_nonce -> invalidate_cache: the nonce_cache write lock; the call
\* returns Ok.
InInvNonce(t) ==
    /\ pc[t] = "in_inv_nonce"
    /\ SetSM(invalidate_nonce(SM, loc[t].a))
    /\ Goto(t, "done", loc[t])
    /\ inc_done' = inc_done + 1
    /\ UNCHANGED <<now, overflow_checks, poisoned, last, inc_started>>

\* The nonce of the account before any of the concurrent calls.
BaseNonce == 0

\* The ledger the concurrent callers start on: account A is persisted, and
\* is or is not yet loaded into the account map.
NonceInit ==
    LET rec == [balance |-> 2 * Unit, nonce |-> BaseNonce]
        persisted == [x \in {"A"} |-> rec]
    IN  /\ accounts \in {Empty, persisted}
        /\ storage = persisted
        /\ balance_cache = Empty
        /\ nonce_cache = Empty
        /\ now = 0
        /\ overflow_checks \in BOOLEAN
        /\ poisoned = FALSE
        /\ last = Call("new", "", "", 0, "Ok")
        /\ CallersInit
        /\ MempoolInit
        /\ ConsensusInit

NonceNext ==
    \/ \E t \in Threads : GnLookup(t) /\ UNCHANGED engineVars
    \/ \E t \in Threads : GnAccount(t) /\ UNCHANGED engineVars
    \/ \E t \in Threads : GnInsert(t) /\ UNCHANGED engineVars
    \/ \E t \in Threads : GnFill(t) /\ UNCHANGED engineVars
    \/ \E t \in Threads : InUpdate(t) /\ UNCHANGED engineVars
    \/ \E t \in Threads : InSave(t) /\ UNCHANGED engineVars
    \/ \E t \in Threads : InInvBalance(t) /\ UNCHANGED engineVars
    \/ \E t \in Threads : InInvNonce(t) /\ UNCHANGED engineVars
    \/ Advance(1) /\ UNCHANGED nonLedgerVars

SpecNonce == NonceInit /\ [][NonceNext]_vars

\* C5: a get_nonce that begins after n increment_nonce calls have returned
\* returns at least the initial nonce + n (and no more than the initial
\* nonce + the increments begun), whatever the interleaving.
C5_NonceAfterIncrements ==
    \A t \in Threads :
        (pc[t] = "done" /\ loc[t].op = "get_nonce") =>
            /\ loc[t].res >= BaseNonce + loc[t].done_at_start
            /\ loc[t].res <= BaseNonce + inc_started

-----------------------------------------------------------------------------
(* Claims about transfer.  A step whose last' names a transfer is that      *)
(* transfer: every action records itself in last.                          *)

BalanceOf(accts, a) == GetOrNew(accts, a).balance
NonceOf(accts, a) == GetOrNew(accts, a).nonce

TransferStep == last'.op = "transfer"
TransferOkStep == TransferStep /\ last'.res = "Ok"

\* C1: a transfer that returns Ok leaves the sum of all balances as it was,
\* for every from, to and amount (from = to and unknown addresses included).
C1_Conservation ==
    [][TransferOkStep =>
          get_total_supply(accounts') = get_total_supply(accounts)]_vars

\* C2: a transfer of more than from's balance returns the error and changes
\* neither the account map, the persisted records nor the caches; a transfer
\* that is carried out never debits more than the balance (no underflow).
C2_RefusedTransferChangesNothing ==
    [][TransferStep =>
          LET has == BalanceOf(accounts, last'.from)
          IN  /\ has < last'.amount =>
                    /\ last'.res = "InsufficientBalance"
                    /\ accounts' = accounts
                    /\ storage' = storage
                    /\ balance_cache' = balance_cache
                    /\ nonce_cache' = nonce_cache
              /\ last'.res = "Ok" =>
                    /\ has >= last'.amount
                    /\ \A a \in DOMAIN accounts' :
                           accounts'[a].balance \in 0..AmountMax]_vars

\* C2 witness: a refused transfer from a known account whose balance and
\* nonce were cached when it was called.
C2_Witness ==
    /\ last.op = "transfer"
    /\ last.res = "InsufficientBalance"
    /\ last.amount > 0
    /\ last.from \in DOMAIN accounts
    /\ last.from \in DOMAIN balance_cache
    /\ last.from \in DOMAIN nonce_cache

\* C3: a successful transfer between two different addresses debits from and
\* credits to by exactly the amount, changes no other balance and no nonce,
\* and get_balance right after it returns the new balances.
C3_ExactDebitCredit ==
    [][(TransferOkStep /\ last'.from # last'.to) =>
          LET f == last'.from
              t == last'.to
              m == last'.amount
          IN  /\ BalanceOf(accounts', f) = BalanceOf(accounts, f) - m
              /\ BalanceOf(accounts', t) = BalanceOf(accounts, t) + m
              /\ \A a \in Addr \ {f, t} :
                     BalanceOf(accounts', a) = BalanceOf(accounts, a)
              /\ \A a \in Addr : NonceOf(accounts', a) = NonceOf(accounts, a)
              /\ get_balance(SM', f, now').val = BalanceOf(accounts, f) - m
              /\ get_balance(SM', t, now').val = BalanceOf(accounts, t) + m]_vars

\* C4: a successful transfer from an address to itself leaves its balance
\* as it was.
C4_SelfTransferNetZero ==
    [][(TransferStep /\ last'.from = last'.to
           /\ BalanceOf(accounts, last'.from) >= last'.amount) =>
          /\ last'.res = "Ok"
          /\ BalanceOf(accounts', last'.from) = BalanceOf(accounts, last'.from)]_vars


-----------------------------------------------------------------------------
(* Mempool (src/mempool/src/lib.rs).  A transaction is a record of the     *)
(* fields of types::Transaction; sig stands for the pair (pubkey,          *)
(* signature) by what crypto::verify_signature makes of it.                *)

\* The most transactions the pool is built to hold: Mempool::new(max_size).
MaxSize == 2

\* validate_transaction: the nonce window and the gas limits.
NonceWindow == 100
MinGasLimit == 21000
MaxGasLimit == 10000000

\* Transaction::hash: SHA-256 over the serialisation of every field; equal
\* exactly for equal transactions.
Hash(tx) ==
    <<tx.from, tx.nonce, tx.kind, tx.to, tx.amount, tx.gas_limit,
      tx.gas_price, tx.sig>>

\* verify_transaction_signature: Ok(true), Ok(false) or Err.
verify_transaction_signature(tx) ==
    CASE tx.sig = "valid" -> "true"
      [] tx.sig = "malformed" -> "Err"
      [] OTHER -> "false"

\* calculate_total_cost, as the mathematical integer.
exact_total_cost(tx) ==
    tx.gas_limit * tx.gas_price + (IF tx.kind = "Transfer" THEN tx.amount ELSE 0)

\* calculate_total_cost: the product and the sum are u128 arithmetic.
calculate_total_cost(tx) ==
    LET gas_cost == (tx.gas_limit * tx.gas_price) % AmountModulus
    IN  IF tx.kind = "Transfer"
        THEN (tx.amount + gas_cost) % AmountModulus
        ELSE gas_cost

\* The u128 arithmetic of calculate_total_cost overflows.
cost_overflows(tx) == calculate_total_cost(tx) # exact_total_cost(tx)

\* validate_transaction.  The nonce and the balance are read through the
\* caches of the state manager, which the reads may fill.
validate_transaction(s, tx, t, checks) ==
    LET sig == verify_transaction_signature(tx)
        n == get_nonce(s, tx.from, t)
        b == get_balance(n.s, tx.from, t)
    IN  IF sig = "Err" THEN [s |-> s, res |-> "SignatureError"]
        ELSE IF sig = "false" THEN [s |-> s, res |-> "InvalidSignature"]
        ELSE IF tx.nonce < n.val THEN [s |-> n.s, res |-> "NonceTooLow"]
        ELSE IF tx.nonce > n.val + NonceWindow
             THEN [s |-> n.s, res |-> "NonceTooHigh"]
        ELSE IF checks /\ cost_overflows(tx) THEN [s |-> b.s, res |-> "Panic"]
        ELSE IF b.val < calculate_total_cost(tx)
             THEN [s |-> b.s, res |-> "InsufficientBalance"]
        ELSE IF tx.gas_limit < MinGasLimit
             THEN [s |-> b.s, res |-> "GasLimitTooLow"]
        ELSE IF tx.gas_limit > MaxGasLimit
             THEN [s |-> b.s, res |-> "GasLimitTooHigh"]
        ELSE [s |-> b.s, res |-> "Ok"]

\* The two indices of the pool.
MP == [pending |-> pending, by_hash |-> by_hash]

SetMP(m) ==
    /\ pending' = m.pending
    /\ by_hash' = m.by_hash

\* add_transaction, lines 52-62: the push on the sender's queue and the
\* insert into by_hash.
mempool_insert(m, tx) ==
    LET queue == IF tx.from \in DOMAIN m.pending
                 THEN m.pending[tx.from] ELSE <<>>
    IN  [pending |-> Put(m.pending, tx.from, Append(queue, tx)),
         by_hash |-> Put(m.by_hash, Hash(tx), tx)]

\* add_transaction.
add_transaction(m, s, tx, t, checks) ==
    LET v == validate_transaction(s, tx, t, checks)
    IN  IF v.res # "Ok" THEN [m |-> m, s |-> v.s, res |-> v.res]
        ELSE IF Hash(tx) \in DOMAIN m.by_hash
             THEN [m |-> m, s |-> v.s, res |-> "AlreadyInMempool"]
        ELSE IF Cardinality(DOMAIN m.by_hash) >= MaxSize
             THEN [m |-> m, s |-> v.s, res |-> "MempoolFull"]
        ELSE [m |-> mempool_insert(m, tx), s |-> v.s, res |-> "Ok"]

\* VecDeque::retain(|t| t.hash() != tx_hash)
retain(queue, h) ==
    LET keep(x) == Hash(x) # h IN SelectSeq(queue, keep)

\* remove_transaction
remove_transaction(m, h) ==
    IF h \notin DOMAIN m.by_hash THEN m
    ELSE LET tx == m.by_hash[h]
             left == Remove(m.by_hash, h)
         IN  IF tx.from \notin DOMAIN m.pending
             THEN [pending |-> m.pending, by_hash |-> left]
             ELSE LET queue == retain(m.pending[tx.from], h)
                  IN  [pending |-> IF queue = <<>>
                                   THEN Remove(m.pending, tx.from)
                                   ELSE Put(m.pending, tx.from, queue),
                       by_hash |-> left]

\* clear
clear == [pending |-> Empty, by_hash |-> Empty]


\* The order of all_txs.sort_by: gas price descending, then nonce ascending.
sorts_before(a, b) ==
    \/ a.gas_price > b.gas_price
    \/ a.gas_price = b.gas_price /\ a.nonce < b.nonce

\* Vec::sort_by is stable: x goes behind every element it does not sort
\* before.
RECURSIVE sort_by(_)
sort_by(txs) ==
    IF txs = <<>> THEN <<>>
    ELSE LET x == txs[Len(txs)]
             out == sort_by(SubSeq(txs, 1, Len(txs) - 1))
             k == Cardinality({i \in 1..Len(out) : ~sorts_before(x, out[i])})
         IN  SubSeq(out, 1, k) \o <<x>> \o SubSeq(out, k + 1, Len(out))

\* pending.values().flat_map(..): the queues one after another, in the
\* order the HashMap iterates.
RECURSIVE flat_map(_, _)
flat_map(queues, order) ==
    IF order = <<>> THEN <<>>
    ELSE queues[Head(order)] \o flat_map(queues, Tail(order))

\* The orders a HashMap may iterate its keys in.
Orders(keys) ==
    {o \in [1..Cardinality(keys) -> keys] :
        \A i, j \in DOMAIN o : o[i] = o[j] => i = j}

\* get_transactions_for_block, lines 171-183: the loop over all_txs.
RECURSIVE executable_from(_, _, _, _, _)
executable_from(all_txs, executable, s, max_count, t) ==
    IF all_txs = <<>> \/ Len(executable) >= max_count
    THEN [s |-> s, val |-> executable]
    ELSE LET tx == Head(all_txs)
             n == get_nonce(s, tx.from, t)
         IN  executable_from(Tail(all_txs),
                             IF tx.nonce = n.val
                             THEN Append(executable, tx) ELSE executable,
                             n.s, max_count, t)

\* get_transactions_for_block
get_transactions_for_block(m, s, max_count, order, t) ==
    executable_from(sort_by(flat_map(m.pending, order)), <<>>, s, max_count, t)


-----------------------------------------------------------------------------
(* The pool and the ledger it validates against, one call at a time.       *)

\* The amount every modelled transaction moves.
TxAmount == Unit \div 8

\* The least gas price whose product with the least gas limit exceeds u128.
OverflowGasPrice == AmountModulus \div MinGasLimit + 1

Tx(from, nonce, kind, gas_limit, gas_price, sig) ==
    [from |-> from, nonce |-> nonce, kind |-> kind, to |-> "C",
     amount |-> IF kind = "Transfer" THEN TxAmount ELSE 0,
     gas_limit |-> gas_limit, gas_price |-> gas_price, sig |-> sig]

\* The transactions clients submit.
Transactions ==
    { Tx("A", 0, "Transfer", MinGasLimit, 1, "valid"),
      Tx("A", 1, "Transfer", MinGasLimit, 1, "valid"),
      Tx("B", 0, "ContractCall", MinGasLimit, 1, "valid"),
      Tx("A", 0, "Transfer", MinGasLimit, OverflowGasPrice, "valid"),
      Tx("A", 0, "Transfer", MinGasLimit, 1, "invalid"),
      Tx("A", 0, "Transfer", MinGasLimit, 1, "malformed"),
      Tx("A", 0, "Transfer", MinGasLimit - 1, 1, "valid"),
      Tx("A", 0, "Transfer", MaxGasLimit + 1, 0, "valid"),
      Tx("A", NonceMax + NonceWindow + 1, "Transfer", MinGasLimit, 1, "valid") }

\* What a mempool call leaves in last.
MempoolCall(op, tx, res) == [op |-> op, tx |-> tx, res |-> res]

\* The ledger after main's initialize_genesis: A and B are funded.
FundedInit ==
    LET rec == [balance |-> 2 * Unit, nonce |-> 0]
        genesis == [x \in {"A", "B"} |-> rec]
    IN  /\ accounts = genesis
        /\ storage = genesis
        /\ balance_cache = Empty
        /\ nonce_cache = Empty
        /\ now = 0
        /\ overflow_checks \in BOOLEAN
        /\ poisoned = FALSE
        /\ last = Call("new", "", "", 0, "Ok")

AddTransactionOf(Txs) ==
    \E tx \in Txs :
        /\ ~poisoned
        /\ LET r == add_transaction(MP, SM, tx, now, overflow_checks)
           IN  /\ SetMP(r.m)
               /\ SetSM(r.s)
               /\ last' = MempoolCall("add_transaction", tx, r.res)
        /\ UNCHANGED <<now, overflow_checks, poisoned, mp_lock>>

AddTransaction == AddTransactionOf(Transactions)

RemoveTransaction ==
    \E tx \in Transactions :
        /\ SetMP(remove_transaction(MP, Hash(tx)))
        /\ last' = MempoolCall("remove_transaction", tx,
                               IF Hash(tx) \in DOMAIN by_hash
                               THEN "Some" ELSE "None")
        /\ UNCHANGED <<ledgerVars, mp_lock>>

Clear ==
    /\ SetMP(clear)
    /\ last' = Read("clear")
    /\ UNCHANGED <<ledgerVars, mp_lock>>

\* The block sizes asked for.
MaxCounts == {1, MaxSize}

\* Every transaction of txs removed from the pool.
RECURSIVE remove_all(_, _)
remove_all(m, txs) ==
    IF txs = <<>> THEN m
    ELSE remove_all(remove_transaction(m, Hash(Head(txs))), Tail(txs))

\* A selection that takes what it returns out of the pool.
GetTransactionsForBlockDraining ==
    \E max_count \in MaxCounts, order \in Orders(DOMAIN pending) :
        /\ ~poisoned
        /\ LET r == get_transactions_for_block(MP, SM, max_count, order, now)
           IN  /\ SetSM(r.s)
               /\ SetMP(remove_all(MP, r.val))
               /\ last' = [op |-> "get_transactions_for_block",
                           max_count |-> max_count, res |-> r.val]
        /\ UNCHANGED <<now, overflow_checks, poisoned, mp_lock>>

GetTransactionsForBlock ==
    \E max_count \in MaxCounts, order \in Orders(DOMAIN pending) :
        /\ ~poisoned
        /\ LET r == get_transactions_for_block(MP, SM, max_count, order, now)
           IN  /\ SetSM(r.s)
               /\ last' = [op |-> "get_transactions_for_block",
                           max_count |-> max_count, res |-> r.val]
        /\ UNCHANGED <<now, overflow_checks, poisoned, mempoolVars>>

MempoolNext(TransferOutcomes, NonceOutcomes) ==
    \/ AddTransaction /\ UNCHANGED <<callerVars, consensusVars>>
    \/ RemoveTransaction /\ UNCHANGED <<callerVars, consensusVars>>
    \/ Clear /\ UNCHANGED <<callerVars, consensusVars>>
    \/ GetTransactionsForBlock /\ UNCHANGED <<callerVars, consensusVars>>
    \/ TransferOf({"A"}, {"C"}, {Unit}, TransferOutcomes)
          /\ UNCHANGED nonLedgerVars
    \/ IncrementNonce(NonceOutcomes) /\ UNCHANGED nonLedgerVars
    \/ Advance(CacheTtl + 1) /\ UNCHANGED nonLedgerVars

MempoolInitAll ==
    FundedInit /\ CallersInit /\ MempoolInit /\ ConsensusInit

\* The durable store accepts every write.
MempoolStep == MempoolNext({TRUE}, {TRUE})

SpecMempool == MempoolInitAll /\ [][MempoolStep]_vars

\* The store_state call of increment_nonce may fail.
MempoolFaultyStep == MempoolNext({TRUE}, BOOLEAN)

SpecMempoolFaulty == MempoolInitAll /\ [][MempoolFaultyStep]_vars


-----------------------------------------------------------------------------
(* Claims about the pool, one call at a time.                              *)

AddStep == last'.op = "add_transaction"

\* C6: an add_transaction of a transaction that is pending is refused as
\* "Transaction already in mempool", whatever the ledger holds, and leaves
\* both indices as they were.
C6_DuplicateAlwaysRejectedAsDuplicate ==
    [][(AddStep /\ Hash(last'.tx) \in DOMAIN by_hash) =>
          /\ last'.res = "AlreadyInMempool"
          /\ pending' = pending
          /\ by_hash' = by_hash]_vars


\* The admission conditions on tx against the account map and the pool,
\* the cost taken as the mathematical integer.
Admissible(tx) ==
    LET account == GetOrNew(accounts, tx.from)
    IN  /\ tx.sig = "valid"
        /\ account.nonce <= tx.nonce
        /\ tx.nonce <= account.nonce + NonceWindow
        /\ account.balance >= exact_total_cost(tx)
        /\ MinGasLimit <= tx.gas_limit
        /\ tx.gas_limit <= MaxGasLimit
        /\ Hash(tx) \notin DOMAIN by_hash
        /\ Cardinality(DOMAIN by_hash) < MaxSize

\* C9: add_transaction returns Ok exactly when the transaction is
\* admissible; then the transaction is in by_hash and at the tail of its
\* sender's queue, and otherwise both indices are left as they were.
C9_AdmissionExactlyWhenValid ==
    [][AddStep =>
          LET tx == last'.tx
          IN  /\ (last'.res = "Ok") <=> Admissible(tx)
              /\ last'.res = "Ok" =>
                    /\ Hash(tx) \in DOMAIN by_hash'
                    /\ by_hash'[Hash(tx)] = tx
                    /\ tx.from \in DOMAIN pending'
                    /\ pending'[tx.from][Len(pending'[tx.from])] = tx
              /\ last'.res # "Ok" =>
                    /\ pending' = pending
                    /\ by_hash' = by_hash]_vars


\* C8: every transaction get_transactions_for_block has just returned
\* carries the nonce its sender's account holds.
C8_ReturnedNonceIsAccountNonce ==
    last.op = "get_transactions_for_block" =>
        \A i \in DOMAIN last.res :
            last.res[i].nonce = NonceOf(accounts, last.res[i].from)


-----------------------------------------------------------------------------
(* add_transaction, remove_transaction and clear run by concurrent         *)
(* callers.  A step is one critical section of the pool's two RwLocks; a   *)
(* write lock that is held while the next one is awaited is recorded in    *)
(* mp_lock.  validate_transaction touches no pool lock and is one step:    *)
(* nothing here changes an account.                                        *)

\* The transactions the concurrent callers submit and remove.
ConcurrentTransactions ==
    { Tx("A", 0, "Transfer", MinGasLimit, 1, "valid"),
      Tx("A", 1, "Transfer", MinGasLimit, 1, "valid"),
      Tx("B", 0, "ContractCall", MinGasLimit, 1, "valid") }

Unlocked(l) == mp_lock[l] = "none"

Finish(t, res) == Goto(t, "done", [loc[t] EXCEPT !.res = res])

\* add_transaction, line 31: validate_transaction.
AmValidate(t) ==
    \E tx \in ConcurrentTransactions :
        /\ Free(t)
        /\ ~poisoned
        /\ LET v == validate_transaction(SM, tx, now, overflow_checks)
           IN  /\ SetSM(v.s)
               /\ Goto(t, IF v.res = "Ok" THEN "am_dup" ELSE "done",
                       MempoolCall("add_transaction", tx, v.res))
        /\ UNCHANGED <<now, overflow_checks, poisoned, last, inc_started,
                       inc_done, mempoolVars>>

\* add_transaction, lines 36-41: the duplicate check under by_hash.read().
AmDup(t) ==
    /\ pc[t] = "am_dup"
    /\ Unlocked("by_hash")
    /\ IF Hash(loc[t].tx) \in DOMAIN by_hash
       THEN Finish(t, "AlreadyInMempool")
       ELSE Goto(t, "am_size", loc[t])
    /\ UNCHANGED <<ledgerVars, last, inc_started, inc_done, mempoolVars>>

\* add_transaction, lines 44-49: the size check under by_hash.read().
AmSize(t) ==
    /\ pc[t] = "am_size"
    /\ Unlocked("by_hash")
    /\ IF Cardinality(DOMAIN by_hash) >= MaxSize
       THEN Finish(t, "MempoolFull")
       ELSE Goto(t, "am_lock_pending", loc[t])
    /\ UNCHANGED <<ledgerVars, last, inc_started, inc_done, mempoolVars>>

\* add_transaction, line 53: pending.write().
AmLockPending(t) ==
    /\ pc[t] = "am_lock_pending"
    /\ Unlocked("pending")
    /\ mp_lock' = [mp_lock EXCEPT !.pending = t]
    /\ Goto(t, "am_lock_by_hash", loc[t])
    /\ UNCHANGED <<ledgerVars, last, inc_started, inc_done, pending, by_hash>>

\* add_transaction, lines 54-62: by_hash.write(), the two inserts, and both
\* locks dropped.
AmInsert(t) ==
    /\ pc[t] = "am_lock_by_hash"
    /\ Unlocked("by_hash")
    /\ SetMP(mempool_insert(MP, loc[t].tx))
    /\ mp_lock' = [mp_lock EXCEPT !.pending = "none"]
    /\ Finish(t, "Ok")
    /\ UNCHANGED <<ledgerVars, last, inc_started, inc_done>>

\* remove_transaction, line 190: by_hash.write().
RmLockByHash(t) ==
    \E tx \in ConcurrentTransactions :
        /\ Free(t)
        /\ Unlocked("by_hash")
        /\ mp_lock' = [mp_lock EXCEPT !.by_hash = t]
        /\ Goto(t, "rm_lock_pending", MempoolCall("remove_transaction", tx, ""))
        /\ UNCHANGED <<ledgerVars, last, inc_started, inc_done, pending,
                       by_hash>>

\* remove_transaction, lines 191-204: pending.write(), the removal, and both
\* locks dropped.
RmApply(t) ==
    /\ pc[t] = "rm_lock_pending"
    /\ Unlocked("pending")
    /\ SetMP(remove_transaction(MP, Hash(loc[t].tx)))
    /\ mp_lock' = [mp_lock EXCEPT !.by_hash = "none"]
    /\ Finish(t, IF Hash(loc[t].tx) \in DOMAIN by_hash THEN "Some" ELSE "None")
    /\ UNCHANGED <<ledgerVars, last, inc_started, inc_done>>

\* clear, line 215: by_hash.write().
ClLockByHash(t) ==
    /\ Free(t)
    /\ Unlocked("by_hash")
    /\ mp_lock' = [mp_lock EXCEPT !.by_hash = t]
    /\ Goto(t, "cl_lock_pending", [op |-> "clear", res |-> ""])
    /\ UNCHANGED <<ledgerVars, last, inc_started, inc_done, pending, by_hash>>

\* clear, lines 216-219: pending.write(), both maps emptied, and both locks
\* dropped.
ClApply(t) ==
    /\ pc[t] = "cl_lock_pending"
    /\ Unlocked("pending")
    /\ SetMP(clear)
    /\ mp_lock' = [mp_lock EXCEPT !.by_hash = "none"]
    /\ Finish(t, "Ok")
    /\ UNCHANGED <<ledgerVars, last, inc_started, inc_done>>

ConcurrentMempoolNext ==
    \/ \E t \in Threads : AmValidate(t) /\ UNCHANGED consensusVars
    \/ \E t \in Threads : AmDup(t) /\ UNCHANGED consensusVars
    \/ \E t \in Threads : AmSize(t) /\ UNCHANGED consensusVars
    \/ \E t \in Threads : AmLockPending(t) /\ UNCHANGED consensusVars
    \/ \E t \in Threads : AmInsert(t) /\ UNCHANGED consensusVars
    \/ \E t \in Threads : RmLockByHash(t) /\ UNCHANGED consensusVars
    \/ \E t \in Threads : RmApply(t) /\ UNCHANGED consensusVars
    \/ \E t \in Threads : ClLockByHash(t) /\ UNCHANGED consensusVars
    \/ \E t \in Threads : ClApply(t) /\ UNCHANGED consensusVars

SpecMempoolConcurrent == MempoolInitAll /\ [][ConcurrentMempoolNext]_vars

\* The entries of all queues of pending.
RECURSIVE PendingCount(_, _)
PendingCount(queues, keys) ==
    IF keys = {} THEN 0
    ELSE LET k == CHOOSE x \in keys : TRUE
         IN  Len(queues[k]) + PendingCount(queues, keys \ {k})

\* C7: whatever the interleaving of add_transaction, remove_transaction and
\* clear, the pool holds at most max_size transactions and no sender's queue
\* holds a transaction hash twice.
C7_PoolBoundedAndDuplicateFree ==
    /\ Cardinality(DOMAIN by_hash) <= MaxSize
    /\ PendingCount(pending, DOMAIN pending) <= MaxSize
    /\ \A a \in DOMAIN pending :
          \A i, j \in DOMAIN pending[a] :
              Hash(pending[a][i]) = Hash(pending[a][j]) => i = j


-----------------------------------------------------------------------------
(* ConsensusEngine (src/consensus/lib.rs).  Its locks are tokio RwLocks;   *)
(* the calls are made one at a time.                                       *)

\* The width of u64 (heights and stakes), scaled.
U64Bits == 8
U64Modulus == 2 ^ U64Bits
U64Max == U64Modulus - 1

\* ConsensusConfig::default
MinValidators == 3

\* The factor select_proposer multiplies the height by.
HeightFactor == 31

\* ConsensusState
CS ==
    [current_height |-> current_height,
     current_proposer |-> current_proposer,
     finalized_height |-> finalized_height,
     validator_set |-> validator_set]

Validator(address, stake, is_active) ==
    [address |-> address, stake |-> stake, commission_rate |-> 0,
     is_active |-> is_active, last_block_produced |-> 0,
     blocks_produced |-> 0, missed_blocks |-> 0]

\* The index of the entry of address in vs, 0 if there is none.
find(vs, address) ==
    IF \E i \in DOMAIN vs : vs[i].address = address
    THEN CHOOSE i \in DOMAIN vs :
             /\ vs[i].address = address
             /\ \A j \in 1..(i - 1) : vs[j].address # address
    ELSE 0

\* add_validator without its sort: the set is left in insertion order.
sort_by_stake_skipped(vs) == vs

\* sort_by(|a, b| b.stake.cmp(&a.stake)): stable, stake descending.
RECURSIVE sort_by_stake(_)
sort_by_stake(vs) ==
    IF vs = <<>> THEN <<>>
    ELSE LET x == vs[Len(vs)]
             out == sort_by_stake(SubSeq(vs, 1, Len(vs) - 1))
             k == Cardinality({i \in 1..Len(out) : out[i].stake >= x.stake})
         IN  SubSeq(out, 1, k) \o <<x>> \o SubSeq(out, k + 1, Len(out))

\* add_validator
add_validator(vs, validator) ==
    LET i == find(vs, validator.address)
    IN  sort_by_stake(IF i # 0 THEN [vs EXCEPT ![i] = validator]
                      ELSE Append(vs, validator))

\* remove_validator
remove_validator(vs, address) ==
    LET keep(v) == v.address # address IN SelectSeq(vs, keep)

\* get_active_validators
get_active_validators(vs) ==
    LET active(v) == v.is_active IN SelectSeq(vs, active)

\* The sum of the first n stakes, as the mathematical integer.
RECURSIVE stake_sum(_, _)
stake_sum(vs, n) ==
    IF n = 0 THEN 0 ELSE stake_sum(vs, n - 1) + vs[n].stake

\* select_proposer, lines 165-170: the first validator whose accumulated
\* stake exceeds target; 0 if the loop ends without one.
first_above(active, target) ==
    LET above == {i \in DOMAIN active :
                     stake_sum(active, i) % U64Modulus > target}
    IN  IF above = {} THEN 0
        ELSE CHOOSE i \in above : \A j \in above : i <= j


\* select_proposer on the validator list vs.  The sum of the stakes and the
\* product height * 31 are u64 arithmetic: with overflow checks they panic,
\* without they wrap.
proposer_for(vs, height, checks) ==
    LET active == get_active_validators(vs)
        total == stake_sum(active, Len(active))
        total_stake == total % U64Modulus
        product == height * HeightFactor
        target == (product % U64Modulus) % total_stake
        i == first_above(active, target)
        Err(e) == [res |-> e, val |-> ""]
    IN  IF active = <<>> THEN Err("NoActiveValidators")
        ELSE IF Len(active) < MinValidators
             THEN Err("NotEnoughActiveValidators")
        ELSE IF checks /\ total > U64Max THEN Err("Panic")
        ELSE IF total_stake = 0 THEN Err("NoStakedValidators")
        ELSE IF checks /\ product > U64Max THEN Err("Panic")
        ELSE [res |-> "Ok", val |-> active[IF i = 0 THEN 1 ELSE i].address]

\* A selection that reads the engine's height counter, not its argument.
select_proposer_by_current_height(state, height, checks) ==
    proposer_for(state.validator_set, state.current_height, checks)

\* select_proposer
select_proposer(state, height, checks) ==
    proposer_for(state.validator_set, height, checks)

\* set_height: current_height is written before the proposer is selected,
\* current_proposer only when the selection succeeds.
set_height(state, height, checks) ==
    LET s1 == [state EXCEPT !.current_height = height]
        r == select_proposer(s1, height, checks)
    IN  [s |-> IF r.res = "Ok" THEN [s1 EXCEPT !.current_proposer = r.val]
               ELSE s1,
         res |-> r.res]

\* The heights asked about: two whose product with 31 fits u64 and the
\* first one whose product does not.
Heights == {0, 3, U64Modulus \div HeightFactor + 1}

\* The validators registered, re-registered and removed.
ValidatorInputs ==
    { Validator("v1", 3, TRUE), Validator("v2", 2, TRUE),
      Validator("v2", 3, TRUE), Validator("v3", 1, TRUE),
      Validator("v3", 1, FALSE) }

ValidatorAddrs == {v.address : v \in ValidatorInputs}

AddValidatorOf(Inputs) ==
    \E v \in Inputs :
        /\ validator_set' = add_validator(validator_set, v)
        /\ last' = Read("add_validator")
        /\ UNCHANGED <<block_height, current_height, current_proposer,
                       finalized_height,
                       pending_proposals, votes, finalized_blocks, selected>>

AddValidator == AddValidatorOf(ValidatorInputs)

RemoveValidatorOf(Addrs) ==
    \E a \in Addrs :
        /\ validator_set' = remove_validator(validator_set, a)
        /\ last' = Read("remove_validator")
        /\ UNCHANGED <<block_height, current_height, current_proposer,
                       finalized_height,
                       pending_proposals, votes, finalized_blocks, selected>>

RemoveValidator == RemoveValidatorOf(ValidatorAddrs)

\* The same question as the one selected records: it is kept, and a new
\* question replaces it.
SameQuestion(height) ==
    /\ selected.res.res # "none"
    /\ selected.height = height
    /\ selected.validator_set = validator_set

SelectProposer ==
    \E height \in Heights :
        LET r == select_proposer(CS, height, overflow_checks)
        IN  /\ last' = [op |-> "select_proposer", height |-> height,
                        res |-> r, repeat |-> SameQuestion(height)]
            /\ selected' = IF SameQuestion(height) THEN selected
                           ELSE [height |-> height,
                                 validator_set |-> validator_set,
                                 at_height |-> current_height, res |-> r]
            /\ UNCHANGED <<block_height, validator_set, current_height,
                           current_proposer,
                           finalized_height, pending_proposals, votes,
                           finalized_blocks>>

SetHeight ==
    \E height \in Heights :
        LET r == set_height(CS, height, overflow_checks)
        IN  /\ current_height' = r.s.current_height
            /\ current_proposer' = r.s.current_proposer
            /\ last' = [op |-> "set_height", height |-> height, res |-> r.res]
            /\ UNCHANGED <<block_height, validator_set, finalized_height,
                           pending_proposals,
                           votes, finalized_blocks, selected>>

\* The rest of the node while the engine is called.
nonConsensusVars ==
    <<accounts, storage, balance_cache, nonce_cache, now, overflow_checks,
      poisoned, callerVars, mempoolVars>>

ConsensusNext ==
    \/ AddValidator /\ UNCHANGED nonConsensusVars
    \/ RemoveValidator /\ UNCHANGED nonConsensusVars
    \/ SelectProposer /\ UNCHANGED nonConsensusVars
    \/ SetHeight /\ UNCHANGED nonConsensusVars

SpecConsensus == MempoolInitAll /\ [][ConsensusNext]_vars

\* C10: a select_proposer call on the validator set and the height of an
\* earlier call returns what that call returned, whatever the engine did in
\* between and whatever its height counter holds.
C10_ProposerDeterministic ==
    last.op = "select_proposer" =>
        /\ selected.height = last.height
        /\ selected.validator_set = validator_set
        /\ selected.res = last.res

\* A repeated question answered with an address after the engine's height
\* counter changed.
C10_Witness ==
    /\ last.op = "select_proposer"
    /\ last.repeat
    /\ last.res.res = "Ok"
    /\ current_height # selected.at_height

-----------------------------------------------------------------------------
(* Votes and finality.                                                     *)

\* ConsensusConfig.finality_threshold: the finalized heights remembered.
FinalityThreshold == 2

\* The votes the model lets one engine collect over all heights.
MaxVotes == 3

\* The votes stored for height, none if the height has no entry.
VotesFor(vts, height) == IF height \in DOMAIN vts THEN vts[height] ELSE <<>>

\* A membership test that forgets the is_active flag.
is_validator_any(vs, address) ==
    \E i \in DOMAIN vs : vs[i].address = address

\* vote, lines 200-201: the voter is a validator of the set and active.
is_validator(vs, address) ==
    \E i \in DOMAIN vs : vs[i].address = address /\ vs[i].is_active

\* One vote more than there are active validators.
required_votes_more_than_all(active_count) == active_count + 1

\* Two thirds of the active validators, without the one vote more.
required_votes_two_thirds(active_count) == (active_count * 2) \div 3

\* The count finalize_block and check_finality compare against.
required_votes(active_count) == (active_count * 2) \div 3 + 1

\* vote.  check_finality returns Ok whatever the count.
vote(state, vts, v) ==
    IF ~is_validator(state.validator_set, v.validator)
    THEN [votes |-> vts, res |-> "NotActiveValidator"]
    ELSE [votes |-> Put(vts, v.block_height,
                        Append(VotesFor(vts, v.block_height), v)),
          res |-> "Ok"]

\* finalize_block, lines 268-270: only the latest heights are kept.
RECURSIVE keep_recent(_)
keep_recent(finalized) ==
    IF Len(finalized) > FinalityThreshold
    THEN keep_recent(Tail(finalized)) ELSE finalized

\* finalize_block
finalize_block(state, vts, finalized, height) ==
    LET active_count == Len(get_active_validators(state.validator_set))
    IN  IF height \notin DOMAIN vts
        THEN [s |-> state, finalized |-> finalized, res |-> "NoVotes"]
        ELSE IF Len(vts[height]) < required_votes(active_count)
        THEN [s |-> state, finalized |-> finalized, res |-> "NotEnoughVotes"]
        ELSE [s |-> [state EXCEPT !.finalized_height = height],
              finalized |-> keep_recent(Append(finalized, height)),
              res |-> "Ok"]

Vote(height, block_hash, validator) ==
    [block_height |-> height, block_hash |-> block_hash,
     validator |-> validator, signature |-> <<>>]

\* The heights voted on and finalized.
VoteHeights == {1, 2}

\* The voters: the validators and an address that is never registered.
Voters == {"v1", "v2", "v3", "v4"}

\* The validators of the finality model: distinct stakes, v3 also inactive.
FinalityValidators ==
    { Validator("v1", 3, TRUE), Validator("v2", 2, TRUE),
      Validator("v3", 1, TRUE), Validator("v3", 1, FALSE) }

RECURSIVE VoteCount(_, _)
VoteCount(vts, heights) ==
    IF heights = {} THEN 0
    ELSE LET h == CHOOSE x \in heights : TRUE
         IN  Len(vts[h]) + VoteCount(vts, heights \ {h})

CastVote ==
    \E h \in VoteHeights, a \in Voters :
        LET v == Vote(h, "0xblock", a)
            r == vote(CS, votes, v)
        IN  /\ VoteCount(votes, DOMAIN votes) < MaxVotes
            /\ votes' = r.votes
            /\ last' = [op |-> "vote", vote |-> v, res |-> r.res]
            /\ UNCHANGED <<block_height, validator_set, current_height,
                           current_proposer,
                           finalized_height, pending_proposals,
                           finalized_blocks, selected>>

FinalizeBlock ==
    \E h \in VoteHeights :
        LET r == finalize_block(CS, votes, finalized_blocks, h)
        IN  /\ finalized_height' = r.s.finalized_height
            /\ finalized_blocks' = r.finalized
            /\ last' = [op |-> "finalize_block", height |-> h, res |-> r.res]
            /\ UNCHANGED <<block_height, validator_set, current_height,
                           current_proposer,
                           pending_proposals, votes, selected>>

FinalityNext ==
    \/ AddValidatorOf(FinalityValidators) /\ UNCHANGED nonConsensusVars
    \/ RemoveValidatorOf(ValidatorAddrs) /\ UNCHANGED nonConsensusVars
    \/ CastVote /\ UNCHANGED nonConsensusVars
    \/ FinalizeBlock /\ UNCHANGED nonConsensusVars

SpecFinality == MempoolInitAll /\ [][FinalityNext]_vars

FinalizeStep == last'.op = "finalize_block"

\* C11: finalize_block(h) returns Ok exactly when the votes recorded for h
\* number at least (active validators * 2) div 3 + 1; when it does not,
\* finalized_height and the finalized heights are left as they were.
C11_FinalityThreshold ==
    [][FinalizeStep =>
          LET h == last'.height
              active == {i \in DOMAIN validator_set : validator_set[i].is_active}
          IN  /\ (last'.res = "Ok") <=>
                    Len(VotesFor(votes, h)) >= (Cardinality(active) * 2) \div 3 + 1
              /\ last'.res # "Ok" =>
                    /\ finalized_height' = finalized_height
                    /\ finalized_blocks' = finalized_blocks]_vars

\* A finalize_block that succeeded on exactly the required number of votes,
\* with more than one validator active.
C11_Witness ==
    /\ last.op = "finalize_block"
    /\ last.res = "Ok"
    /\ Len(get_active_validators(validator_set)) = 3
    /\ Len(VotesFor(votes, last.height)) = 3

\* C12: finalized_height never decreases from one state to the next.
C12_FinalizedHeightMonotonic ==
    [][finalized_height' >= finalized_height]_vars

\* Every active validator of the set, and there is one, has a vote in the
\* list of height.
AllActiveVoted(height) ==
    /\ get_active_validators(validator_set) # <<>>
    /\ \A i \in DOMAIN validator_set :
          validator_set[i].is_active =>
              \E j \in DOMAIN VotesFor(votes, height) :
                  votes[height][j].validator = validator_set[i].address

\* C13: when every active validator has voted for height h, and there is at
\* least one, finalize_block(h) returns Ok and finalized_height is h.
C13_AllVotedFinalizes ==
    [][(FinalizeStep /\ AllActiveVoted(last'.height)) =>
          /\ last'.res = "Ok"
          /\ finalized_height' = last'.height]_vars

\* Three active validators have each voted once for height 1 and height 1
\* was finalized.
C13_Witness ==
    /\ last.op = "finalize_block"
    /\ last.height = 1
    /\ finalized_height = 1
    /\ {validator_set[i].address : i \in DOMAIN validator_set} = {"v1", "v2", "v3"}
    /\ AllActiveVoted(1)
    /\ Len(get_active_validators(validator_set)) = 3
    /\ Len(votes[1]) = 3

VoteStep == last'.op = "vote"

\* C14: vote(v) by an address that is not an active validator of the set
\* returns an error and leaves every vote list as it was; any other vote is
\* appended to the list of its height and no other list changes.
C14_VoteOnlyFromActiveValidators ==
    [][VoteStep =>
          LET v == last'.vote
              active == \E i \in DOMAIN validator_set :
                            /\ validator_set[i].address = v.validator
                            /\ validator_set[i].is_active
          IN  /\ ~active => (last'.res # "Ok" /\ votes' = votes)
              /\ active =>
                    /\ last'.res = "Ok"
                    /\ DOMAIN votes' = DOMAIN votes \cup {v.block_height}
                    /\ votes'[v.block_height] =
                           Append(VotesFor(votes, v.block_height), v)
                    /\ \A h \in DOMAIN votes \ {v.block_height} :
                           votes'[h] = votes[h]]_vars

\* A vote by a registered but deactivated validator was refused while votes
\* of others are stored.
C14_Witness ==
    /\ last.op = "vote"
    /\ last.res = "NotActiveValidator"
    /\ \E i \in DOMAIN validator_set :
          /\ validator_set[i].address = last.vote.validator
          /\ ~validator_set[i].is_active
    /\ votes # Empty

-----------------------------------------------------------------------------
(* Proposals.                                                              *)

BlockProposal(height, proposer) ==
    [height |-> height, proposer |-> proposer, parent_hash |-> "",
     timestamp |-> 0, transactions |-> <<>>, state_root |-> ""]

\* A comparison that accepts every proposer.
proposer_matches_always(proposal, expected_proposer) == TRUE

\* propose_block, line 184: the proposer is the selected one.
proposer_matches(proposal, expected_proposer) ==
    proposal.proposer = expected_proposer

\* propose_block
propose_block(state, proposals, proposal, checks) ==
    LET r == select_proposer(state, proposal.height, checks)
    IN  IF r.res # "Ok" THEN [proposals |-> proposals, res |-> r.res]
        ELSE IF ~proposer_matches(proposal, r.val)
        THEN [proposals |-> proposals, res |-> "InvalidProposer"]
        ELSE [proposals |-> Put(proposals, proposal.height, proposal),
              res |-> "Ok"]

\* The addresses that propose.
Proposers == ValidatorAddrs

ProposeBlockOf(Hs, As) ==
    \E h \in Hs, a \in As :
        LET p == BlockProposal(h, a)
            r == propose_block(CS, pending_proposals, p, overflow_checks)
        IN  /\ pending_proposals' = r.proposals
            /\ last' = [op |-> "propose_block", proposal |-> p, res |-> r.res]
            /\ UNCHANGED <<block_height, validator_set, current_height,
                           current_proposer,
                           finalized_height, votes, finalized_blocks, selected>>

ProposeBlock == ProposeBlockOf(Heights, Proposers)

ProposalNext ==
    \/ AddValidator /\ UNCHANGED nonConsensusVars
    \/ RemoveValidator /\ UNCHANGED nonConsensusVars
    \/ ProposeBlock /\ UNCHANGED nonConsensusVars

SpecProposal == MempoolInitAll /\ [][ProposalNext]_vars

ProposeStep == last'.op = "propose_block"

-----------------------------------------------------------------------------
(* The node (src/node/src/main.rs): the transaction handler feeds the      *)
(* pool, the block proposer task empties it into the ledger.  The node's   *)
(* engine is the one of src/consensus/src/lib.rs: its three built-in       *)
(* validators are always active, so its propose_block always returns a     *)
(* header and advances block_height.                                       *)

\* The candidates the block proposer asks the pool for.
BlockMaxCount == 100

\* The rounds the model lets the block proposer run.
MaxBlocks == 2

\* main, lines 157-176: the loop over the candidates.  A failed transfer
\* skips the removal; every other candidate is removed, a transfer after it
\* was applied, any other type without being applied.
RECURSIVE apply_transactions(_, _, _, _, _, _)
apply_transactions(txs, s, m, okFrom, okTo, checks) ==
    IF txs = <<>>
    THEN [s |-> s, m |-> m, results |-> <<>>, panicked |-> FALSE]
    ELSE LET tx == Head(txs)
             t == transfer(s, tx.from, tx.to, tx.amount, okFrom, okTo, checks)
             applied == tx.kind = "Transfer" /\ t.res = "Ok"
             failed == tx.kind = "Transfer" /\ t.res # "Ok"
             s1 == IF tx.kind = "Transfer" THEN t.s ELSE s
             m1 == IF failed THEN m ELSE remove_transaction(m, Hash(tx))
             rest == apply_transactions(Tail(txs), s1, m1, okFrom, okTo, checks)
             result == IF tx.kind = "Transfer" THEN t.res ELSE "NotApplied"
         IN  IF failed /\ t.res = "Panic"
             THEN [s |-> s1, m |-> m, results |-> <<"Panic">>,
                   panicked |-> TRUE]
             ELSE [rest EXCEPT !.results = <<result>> \o @]

\* One round of the block proposer task with a block of max_count
\* transactions.
produce_round(m, s, max_count, order, t, okFrom, okTo, checks) ==
    LET c == get_transactions_for_block(m, s, max_count, order, t)
        r == apply_transactions(c.val, c.s, m, okFrom, okTo, checks)
    IN  [s |-> r.s, m |-> r.m, txs |-> c.val, results |-> r.results,
         panicked |-> r.panicked]

\* One round of the block proposer task.
produce_block(m, s, order, t, okFrom, okTo, checks) ==
    produce_round(m, s, BlockMaxCount, order, t, okFrom, okTo, checks)

\* Outcomes: what the store_state calls of the round's transfers may return.
ProduceBlock(Outcomes) ==
    \E order \in Orders(DOMAIN pending), okFrom \in Outcomes, okTo \in Outcomes :
        /\ ~poisoned
        /\ block_height < MaxBlocks
        /\ LET r == produce_block(MP, SM, order, now, okFrom, okTo,
                                  overflow_checks)
           IN  /\ SetSM(r.s)
               /\ SetMP(r.m)
               /\ poisoned' = r.panicked
               /\ block_height' = IF r.panicked THEN block_height
                                  ELSE block_height + 1
               /\ last' = [op |-> "produce_block", txs |-> r.txs,
                           results |-> r.results]
        /\ UNCHANGED <<now, overflow_checks, mp_lock, callerVars,
                       validator_set, current_height, current_proposer,
                       finalized_height, pending_proposals, votes,
                       finalized_blocks, selected>>

NodeNext ==
    \/ AddTransaction /\ UNCHANGED <<callerVars, consensusVars>>
    \/ ProduceBlock(BOOLEAN)
    \/ Advance(CacheTtl + 1) /\ UNCHANGED nonLedgerVars

SpecNode == MempoolInitAll /\ [][NodeNext]_vars

ProduceStep == last'.op = "produce_block"

\* The scenario's transaction: a transfer from A at nonce 0 with the
\* minimum gas limit and gas price 1.
ScenarioTx == Tx("A", 0, "Transfer", MinGasLimit, 1, "valid")

\* The scenario's ledger: A holds its genesis balance at nonce 0, the
\* recipient holds nothing.
ScenarioGenesis ==
    /\ GetOrNew(accounts, "A") = [balance |-> 2 * Unit, nonce |-> 0]
    /\ GetOrNew(accounts, ScenarioTx.to).balance = 0

\* C16: in the genesis ledger the scenario's transfer is accepted by
\* add_transaction, and the block-production round that finds it alone in
\* the pool applies it: the sender's balance is lowered by the amount, the
\* recipient's balance is the amount, the sender's nonce is 1 and the
\* transaction's hash is no longer in the pool.
C16_EndToEndScenario ==
    [][/\ (AddStep /\ last'.tx = ScenarioTx /\ ScenarioGenesis
             /\ DOMAIN by_hash = {}) => last'.res = "Ok"
       /\ (ProduceStep /\ ScenarioGenesis
             /\ DOMAIN by_hash = {Hash(ScenarioTx)}
             /\ last'.results = <<"Ok">>) =>
             /\ (get_balance(SM, "A", now).val)' = 2 * Unit - TxAmount
             /\ (get_balance(SM, ScenarioTx.to, now).val)' = TxAmount
             /\ (get_nonce(SM, "A", now).val)' = 1
             /\ Hash(ScenarioTx) \notin DOMAIN by_hash']_vars

\* C17: in a block-production round a candidate is removed from the pool
\* exactly when its application to the ledger succeeded; a candidate whose
\* application failed stays in the pool as it was, and a round in which no
\* application succeeded leaves the accounts and the storage as they were.
C17_RemovedIffApplied ==
    [][ProduceStep =>
          /\ \A i \in DOMAIN last'.results :
                LET tx == last'.txs[i]
                IN  /\ (Hash(tx) \notin DOMAIN by_hash')
                           <=> (last'.results[i] = "Ok")
                    /\ last'.results[i] # "Ok" =>
                          /\ Hash(tx) \in DOMAIN by_hash'
                          /\ pending'[tx.from] = pending[tx.from]
          /\ (\A i \in DOMAIN last'.results : last'.results[i] # "Ok") =>
                /\ accounts' = accounts
                /\ storage' = storage]_vars

-----------------------------------------------------------------------------
(* Claims about the validator set.                                         *)

\* validator_set is ordered by stake, highest first.
SortedByStake(vs) ==
    \A i, j \in 1..Len(vs) : i < j => vs[i].stake >= vs[j].stake

\* validator_set holds no address twice.
OneEntryPerAddress(vs) ==
    \A i, j \in 1..Len(vs) : vs[i].address = vs[j].address => i = j

\* out is what is left of vs, in its order, when the inactive entries are
\* struck out.
ExactlyTheActive(out, vs) ==
    /\ \A k \in 1..Len(out) : out[k].is_active
    /\ Len(out) = Cardinality({i \in 1..Len(vs) : vs[i].is_active})
    /\ \A i \in 1..Len(vs) : vs[i].is_active =>
          out[Cardinality({j \in 1..i : vs[j].is_active})] = vs[i]

\* C18: after any sequence of add_validator and remove_validator calls the
\* validator set is ordered by stake, highest first, holds at most one entry
\* for an address, and get_active_validators returns exactly its active
\* entries.
C18_ValidatorSetSortedAndUnique ==
    /\ SortedByStake(validator_set)
    /\ OneEntryPerAddress(validator_set)
    /\ ExactlyTheActive(get_active_validators(validator_set), validator_set)

\* Three validators, one of them inactive and one re-added with the stake
\* of another, right after an add_validator.
C18_Witness ==
    /\ last.op = "add_validator"
    /\ Len(validator_set) = 3
    /\ \E i \in 1..3 : ~validator_set[i].is_active
    /\ \E i \in 1..3 : /\ validator_set[i].address = "v2"
                       /\ validator_set[i].stake = 3

\* The position in active of the first validator whose cumulative stake
\* exceeds (height * 31) mod total, the product and the sums taken as
\* mathematical integers.
ExactProposerIndex(active, height) ==
    LET total == stake_sum(active, Len(active))
        target == (height * HeightFactor) % total
    IN  CHOOSE i \in DOMAIN active :
            /\ stake_sum(active, i) > target
            /\ \A j \in DOMAIN active : stake_sum(active, j) > target => i <= j

\* C19: with at least min_validators active validators of positive total
\* stake, select_proposer(h) returns the first active validator, in set
\* order, whose cumulative stake exceeds (h * 31) mod total with h * 31 the
\* mathematical product; with fewer active validators it returns an error.
C19_ProposerByExactProduct ==
    last.op = "select_proposer" =>
        LET active == get_active_validators(validator_set)
            total == stake_sum(active, Len(active))
        IN  /\ (Len(active) >= MinValidators /\ total > 0) =>
                  /\ last.res.res = "Ok"
                  /\ last.res.val =
                         active[ExactProposerIndex(active, last.height)].address
                  /\ is_validator(validator_set, last.res.val)
            /\ Len(active) = 0 => last.res.res = "NoActiveValidators"
            /\ (0 < Len(active) /\ Len(active) < MinValidators) =>
                  last.res.res = "NotEnoughActiveValidators"

-----------------------------------------------------------------------------
(* Claims about the selection for a block.                                 *)

\* The transactions in the pool.
Pool ==
    UNION {{pending[a][i] : i \in DOMAIN pending[a]} : a \in DOMAIN pending}

\* tx carries the nonce its sender's account holds.
NonceEligible(tx) == tx.nonce = NonceOf(accounts, tx.from)

\* C20: get_transactions_for_block(max_count) returns at most max_count
\* transactions, in order of non-increasing gas price with ties in ascending
\* nonce; they are nonce-eligible transactions of the pool, none twice, and
\* an eligible transaction of the pool is left out only when max_count
\* transactions were returned and it sorts before none of them.
C20_FirstEligibleByGasPrice ==
    last.op = "get_transactions_for_block" =>
        LET res == last.res
            returned == {res[i] : i \in DOMAIN res}
        IN  /\ Len(res) <= last.max_count
            /\ \A i, j \in DOMAIN res : i < j => ~sorts_before(res[j], res[i])
            /\ Cardinality(returned) = Len(res)
            /\ \A tx \in returned : tx \in Pool /\ NonceEligible(tx)
            /\ \A tx \in Pool \ returned :
                  NonceEligible(tx) =>
                      /\ Len(res) = last.max_count
                      /\ \A i \in DOMAIN res : ~sorts_before(tx, res[i])

-----------------------------------------------------------------------------
(* Claims about the reasons of a rejection.                                *)

\* The admission checks, in the order of the pipeline.
CheckOrder ==
    <<"Signature", "NonceTooLow", "NonceTooHigh", "InsufficientBalance",
      "GasLimit", "AlreadyInMempool", "MempoolFull">>

\* tx does not meet the condition of check against the account map and the
\* pool; the cost is the mathematical integer.
Fails(tx, check) ==
    LET account == GetOrNew(accounts, tx.from)
    IN  CASE check = "Signature" -> tx.sig # "valid"
          [] check = "NonceTooLow" -> tx.nonce < account.nonce
          [] check = "NonceTooHigh" -> tx.nonce > account.nonce + NonceWindow
          [] check = "InsufficientBalance" ->
                 account.balance < exact_total_cost(tx)
          [] check = "GasLimit" ->
                 tx.gas_limit < MinGasLimit \/ tx.gas_limit > MaxGasLimit
          [] check = "AlreadyInMempool" -> Hash(tx) \in DOMAIN by_hash
          [] check = "MempoolFull" -> Cardinality(DOMAIN by_hash) >= MaxSize

FailedChecks(tx) == {i \in DOMAIN CheckOrder : Fails(tx, CheckOrder[i])}

\* The first check of the pipeline tx fails.
FirstFailingCheck(tx) ==
    CheckOrder[CHOOSE i \in FailedChecks(tx) :
                   \A j \in FailedChecks(tx) : i <= j]

\* The check a result of add_transaction names.
ReasonOf(res) ==
    IF res \in {"InvalidSignature", "SignatureError"} THEN "Signature"
    ELSE IF res \in {"GasLimitTooLow", "GasLimitTooHigh"} THEN "GasLimit"
    ELSE res

\* C21: for a transaction that fails several admission checks at once
\* add_transaction reports the reason of the first of them, in the order
\* signature, nonce too low, nonce too high, insufficient balance, gas limit
\* out of range, duplicate, pool full, each reason being different from the
\* others.
C21_FirstFailingCheckReported ==
    [][(AddStep /\ Cardinality(FailedChecks(last'.tx)) >= 2) =>
          ReasonOf(last'.res) = FirstFailingCheck(last'.tx)]_vars

-----------------------------------------------------------------------------
(* deploy_contract, and the callers that initialise and deploy while the   *)
(* ledger is being read.                                                   *)

\* calculate_contract_address: a hash of the deployer and its nonce, one
\* address for each pair.
calculate_contract_address(deployer, nonce) ==
    CASE deployer = "A" /\ nonce = 0 -> "contractA0"
      [] deployer = "A" /\ nonce # 0 -> "contractA1"
      [] deployer = "B" /\ nonce = 0 -> "contractB0"
      [] OTHER -> "contractB1"

\* deploy_contract(deployer, code, initial_balance): the deployer is looked
\* up in the account map only; the contract account replaces whatever the
\* map holds at its address.  okAccount and okCode are the outcomes of
\* persisting the account and the code.
deploy_contract(s, deployer, initial_balance, okAccount, okCode) ==
    LET contract_address ==
            calculate_contract_address(deployer, s.accounts[deployer].nonce)
        contract_account == [balance |-> initial_balance, nonce |-> 0]
        s1 == account_insert(s, contract_address, contract_account)
        s2 == save_account_to_storage(s1, contract_address, contract_account)
    IN  IF deployer \notin DOMAIN s.accounts
        THEN [s |-> s, res |-> "DeployerNotFound"]
        ELSE IF ~okAccount THEN [s |-> s1, res |-> "StorageError"]
        ELSE IF ~okCode THEN [s |-> s2, res |-> "StorageError"]
        ELSE [s |-> s2, res |-> "Ok"]

\* The balances contracts are deployed with.
InitialBalances == {0, Unit}

DeployContract(Outcomes) ==
    \E deployer \in NonceUsers, initial_balance \in InitialBalances,
       okAccount \in Outcomes, okCode \in Outcomes :
        /\ ~poisoned
        /\ LET r == deploy_contract(SM, deployer, initial_balance,
                                    okAccount, okCode)
           IN  /\ SetSM(r.s)
               /\ last' = Call("deploy_contract", deployer, "",
                               initial_balance, r.res)
        /\ UNCHANGED <<now, overflow_checks, poisoned>>

\* The addresses whose balance is read: a sender, a recipient and a
\* contract.
CacheReaders == {"A", "B", calculate_contract_address("A", 0)}

\* The ledger, one call at a time, with a durable store that accepts every
\* write; initialize_genesis and deploy_contract may follow reads.
CacheNext ==
    \/ InitializeGenesisWhen(TRUE, {0}) /\ UNCHANGED nonLedgerVars
    \/ DeployContract({TRUE}) /\ UNCHANGED nonLedgerVars
    \/ GetBalanceOf(CacheReaders) /\ UNCHANGED nonLedgerVars
    \/ GetNonce /\ UNCHANGED nonLedgerVars
    \/ TransferOf({"A"}, {"B"}, {Unit}, {TRUE}) /\ UNCHANGED nonLedgerVars
    \/ IncrementNonce({TRUE}) /\ UNCHANGED nonLedgerVars
    \/ Advance(CacheTtl + 1) /\ UNCHANGED nonLedgerVars

SpecCache == Init /\ [][CacheNext]_vars

\* What get_balance and get_nonce return for a at the present time.
BalanceRead(a) == get_balance(SM, a, now).val
NonceRead(a) == get_nonce(SM, a, now).val

\* The account of a as get_account finds it.
Authoritative(a) == get_account(SM, a).val

\* C22: in a sequential execution every mutating operation has removed the
\* cache entries of the addresses it changed when it returns, so that
\* get_balance and get_nonce return the authoritative value of every
\* address, whether or not it was read before the mutation.
C22_ReadAfterMutationAuthoritative ==
    /\ \A a \in CacheReaders :
           BalanceRead(a) = Authoritative(a).balance
    /\ \A a \in NonceUsers : NonceRead(a) = Authoritative(a).nonce

-----------------------------------------------------------------------------
(* Claims about the age of a cached value under concurrent callers.  A     *)
(* call's record holds in `at` the second the call returned (get_nonce) or *)
(* changed the account (increment_nonce).                                  *)

\* Thread t has returned from a get_nonce that began when every
\* increment_nonce ever begun had returned.
Returned(t) ==
    /\ pc[t] = "done"
    /\ loc[t].op = "get_nonce"
    /\ loc[t].done_at_start = inc_started

\* Thread u's last call was the increment_nonce that replaced nonce n.
Replaced(u, n) ==
    /\ loc[u].op = "increment_nonce"
    /\ loc[u].acct.nonce = n + 1

\* C23: a value returned by get_nonce was the account's nonce at some
\* instant no more than the cache's time-to-live before the read returned,
\* whatever the interleaving with increment_nonce: a read that begins
\* after an increment has returned does not return the value that
\* increment replaced more than 5 seconds after the replacement.
C23_StalenessWithinTtl ==
    \A t, u \in Threads :
        (Returned(t) /\ Replaced(u, loc[t].res)) =>
            loc[t].at - loc[u].at <= CacheTtl

-----------------------------------------------------------------------------
(* Validator performance and rotation.                                     *)

\* record_missed_block deactivates above this number of missed blocks.
MissedLimit == 10

\* The model records at most this many produced, and this many missed,
\* blocks for a validator.
MaxProduced == 4
MaxMissed == 2

\* record_block_production: an unknown address changes nothing.
record_block_production(vs, validator, height) ==
    LET i == find(vs, validator)
    IN  IF i = 0 THEN vs
        ELSE [vs EXCEPT ![i].blocks_produced = @ + 1,
                        ![i].last_block_produced = height]

\* record_missed_block: an unknown address changes nothing.
record_missed_block(vs, validator) ==
    LET i == find(vs, validator)
        missed == vs[i].missed_blocks + 1
    IN  IF i = 0 THEN vs
        ELSE [vs EXCEPT ![i].missed_blocks = missed,
                        ![i].is_active = IF missed > MissedLimit
                                         THEN FALSE ELSE @]

\* rotate_validators, line 331: the guard of the miss-rate test.
has_produced(v) == v.blocks_produced > 0

\* rotate_validators, lines 332-333: missed as f64 / produced as f64 > 0.3.
\* The quotient of two counters below 2^52 is rounded to the double nearest
\* to it, and 0.3 is the double nearest to 3/10, so that for such counters
\* the test is the comparison of the exact quotient with 3/10.
miss_rate_above(missed_blocks, blocks_produced) ==
    missed_blocks * 10 > blocks_produced * 3

\* rotate_validators, lines 330-337: the deactivation loop.
deactivate_low_performance(vs) ==
    [i \in DOMAIN vs |->
        IF has_produced(vs[i])
           /\ miss_rate_above(vs[i].missed_blocks, vs[i].blocks_produced)
        THEN [vs[i] EXCEPT !.is_active = FALSE] ELSE vs[i]]

\* rotate_validators, lines 346-357: the first min_validators entries of
\* the set sorted by stake are made active.
activate_top(vs) ==
    LET sorted == sort_by_stake(vs)
        top == {find(vs, sorted[i].address) :
                    i \in {k \in DOMAIN sorted : k - 1 < MinValidators}}
    IN  [i \in DOMAIN vs |->
            IF i \in top THEN [vs[i] EXCEPT !.is_active = TRUE] ELSE vs[i]]

\* rotate_validators
rotate_validators(vs) ==
    LET deactivated == deactivate_low_performance(vs)
        active_count == Len(get_active_validators(deactivated))
    IN  IF active_count < MinValidators THEN activate_top(deactivated)
        ELSE deactivated

\* The validators of the rotation model: two of higher stake whose
\* performance is recorded, two of the lowest stake.
RotationValidators ==
    { Validator("v1", 3, TRUE), Validator("v2", 2, TRUE),
      Validator("v2", 2, FALSE), Validator("v3", 1, TRUE),
      Validator("v4", 1, TRUE), Validator("v4", 1, FALSE) }

Recorded == {"v1", "v2"}

RecordBlockProduction ==
    \E validator \in Recorded :
        /\ \A i \in DOMAIN validator_set :
               validator_set[i].address = validator =>
                   validator_set[i].blocks_produced < MaxProduced
        /\ validator_set' =
               record_block_production(validator_set, validator, current_height)
        /\ last' = Read("record_block_production")
        /\ UNCHANGED <<block_height, current_height, current_proposer,
                       finalized_height, pending_proposals, votes,
                       finalized_blocks, selected>>

RecordMissedBlock ==
    \E validator \in Recorded :
        /\ \A i \in DOMAIN validator_set :
               validator_set[i].address = validator =>
                   validator_set[i].missed_blocks < MaxMissed
        /\ validator_set' = record_missed_block(validator_set, validator)
        /\ last' = Read("record_missed_block")
        /\ UNCHANGED <<block_height, current_height, current_proposer,
                       finalized_height, pending_proposals, votes,
                       finalized_blocks, selected>>

\* rotate_validators; last keeps the set the rotation began with.
RotateValidators ==
    /\ validator_set' = rotate_validators(validator_set)
    /\ last' = [op |-> "rotate_validators", before |-> validator_set]
    /\ UNCHANGED <<block_height, current_height, current_proposer,
                   finalized_height, pending_proposals, votes,
                   finalized_blocks, selected>>

RotationNext ==
    \/ AddValidatorOf(RotationValidators) /\ UNCHANGED nonConsensusVars
    \/ RecordBlockProduction /\ UNCHANGED nonConsensusVars
    \/ RecordMissedBlock /\ UNCHANGED nonConsensusVars
    \/ RotateValidators /\ UNCHANGED nonConsensusVars

SpecRotation == MempoolInitAll /\ [][RotationNext]_vars

RotateStep == last'.op = "rotate_validators"

\* The lifetime miss rate missed_blocks / blocks_produced of v is greater
\* than 30%.
MissRateAbove30(v) == v.missed_blocks * 10 > v.blocks_produced * 3

\* The validators of vs that are active and do not miss more than 30%.
Performing(vs) ==
    {i \in DOMAIN vs : vs[i].is_active /\ ~MissRateAbove30(vs[i])}

\* C24: rotate_validators deactivates every validator whose miss rate is
\* greater than 30% (when enough performing validators remain, so that
\* none is promoted back), deactivates no validator whose miss rate is at
\* most 30%, and changes no stake, no counter and no membership.
C24_RotationDeactivatesByMissRate ==
    [][RotateStep =>
          /\ DOMAIN validator_set' = DOMAIN validator_set
          /\ \A i \in DOMAIN validator_set :
                LET v == validator_set[i]
                    w == validator_set'[i]
                IN  /\ w = [v EXCEPT !.is_active = w.is_active]
                    /\ (MissRateAbove30(v)
                          /\ Cardinality(Performing(validator_set))
                                >= MinValidators) => ~w.is_active
                    /\ (~MissRateAbove30(v) /\ v.is_active) => w.is_active]_vars

\* The positions of the active validators of vs.
ActiveIn(vs) == {i \in DOMAIN vs : vs[i].is_active}

\* C25: when the deactivation step of rotate_validators leaves fewer than
\* min_validators active, the inactive validators of highest stake are
\* reactivated, exactly as many as are needed to reach min_validators (all
\* of them if there are too few), and no other flag changes: the active
\* count is then min_validators, or the size of a smaller set.
C25_PromotionRestoresMinimum ==
    [][RotateStep =>
          LET d == deactivate_low_performance(validator_set)
              after == validator_set'
              inactive == DOMAIN d \ ActiveIn(d)
              needed == MinValidators - Cardinality(ActiveIn(d))
              promoted == {i \in inactive : after[i].is_active}
          IN  Cardinality(ActiveIn(d)) < MinValidators =>
                 /\ Cardinality(promoted) =
                        IF needed <= Cardinality(inactive)
                        THEN needed ELSE Cardinality(inactive)
                 /\ \A i \in promoted, j \in inactive \ promoted :
                        d[i].stake >= d[j].stake
                 /\ \A i \in DOMAIN d \ promoted :
                        after[i].is_active = d[i].is_active
                 /\ Cardinality(ActiveIn(after)) =
                        IF Len(d) >= MinValidators
                        THEN MinValidators ELSE Len(d)]_vars

-----------------------------------------------------------------------------
(* The phases of a height: proposals, votes and finality in one engine.    *)

PhaseNext ==
    \/ AddValidatorOf(FinalityValidators) /\ UNCHANGED nonConsensusVars
    \/ ProposeBlockOf(VoteHeights, Proposers) /\ UNCHANGED nonConsensusVars
    \/ CastVote /\ UNCHANGED nonConsensusVars
    \/ FinalizeBlock /\ UNCHANGED nonConsensusVars

SpecPhase == MempoolInitAll /\ [][PhaseNext]_vars

\* C26: the phases of a height come in the order proposed, voting,
\* finalized: finalize_block(h) returns Ok only when propose_block has
\* accepted a proposal for h beforehand, so that votes for a height without
\* an accepted proposal do not lead to finality.
C26_FinalityFollowsProposal ==
    [][(FinalizeStep /\ last'.res = "Ok") =>
           last'.height \in DOMAIN pending_proposals]_vars

\* A step of set_height.
SetHeightStep == last'.op = "set_height"

\* C27: set_height(h) updates current_height and current_proposer together:
\* when it returns Ok, current_height is h and current_proposer is the
\* proposer selected for h; when the selection fails, the error is returned
\* and current_height and current_proposer are both unchanged.
C27_SetHeightUpdatesTogether ==
    [][SetHeightStep =>
         IF last'.res = "Ok"
         THEN /\ current_height' = last'.height
              /\ current_proposer' =
                     select_proposer(CS, last'.height, overflow_checks).val
         ELSE /\ current_height' = current_height
              /\ current_proposer' = current_proposer]_vars

-----------------------------------------------------------------------------
(* What get_transactions_for_block leaves alone.                           *)

\* A step of get_transactions_for_block.
GetForBlockStep == last'.op = "get_transactions_for_block"

\* tx is among the transactions a call returned.
ReturnedIn(tx, res) == \E i \in DOMAIN res : res[i] = tx

\* The nonce cache holds no live entry for a that differs from a's account.
NonceCacheCurrent(a) ==
    nonce_cache_hit(SM, a, now) =>
        nonce_cache[a].value = NonceOf(accounts, a)

\* tx is returned by a call with room for the whole pool made at time t,
\* whatever the order the pool's map iterates in.
ReturnedByCallAt(tx, t) ==
    \A order \in Orders(DOMAIN pending) :
        ReturnedIn(tx, get_transactions_for_block(MP, SM, MaxSize, order, t).val)

\* A pooled transaction whose nonce its sender's account has reached is
\* returned by a call made now unless a stale nonce is cached, and by a call
\* made once the cache entries of now have expired.
EligibleIsReturned ==
    \A tx \in Pool :
        NonceEligible(tx) =>
            /\ NonceCacheCurrent(tx.from) => ReturnedByCallAt(tx, now)
            /\ ReturnedByCallAt(tx, now + CacheTtl + 1)

\* C28: get_transactions_for_block changes neither index of the pool and no
\* account, in memory or in the store; so a transaction it skips because
\* its nonce is ahead of its sender's account nonce stays in the pool, and
\* whenever a pooled transaction's nonce is the one its sender's account
\* has reached, a later call returns it.
C28_SelectionLeavesPoolAndAccounts ==
    /\ [][GetForBlockStep =>
              /\ pending' = pending
              /\ by_hash' = by_hash
              /\ accounts' = accounts
              /\ storage' = storage]_<<pending, by_hash, accounts, storage>>
    /\ []EligibleIsReturned

\* A call has just skipped a pooled transaction whose nonce is ahead of its
\* sender's account nonce, and returned another one.
C28_Witness ==
    /\ last.op = "get_transactions_for_block"
    /\ last.res # <<>>
    /\ \E tx \in Pool :
           /\ tx.nonce > NonceOf(accounts, tx.from)
           /\ ~ReturnedIn(tx, last.res)

-----------------------------------------------------------------------------
(* The two indices of the pool between operations.                         *)

\* No caller is inside a pool operation and no pool lock is held.
PoolQuiescent ==
    /\ \A t \in Threads : Free(t)
    /\ \A l \in DOMAIN mp_lock : Unlocked(l)

\* The positions of the transaction of hash h in the queue of sender a.
PositionsOf(h, a) ==
    IF a \in DOMAIN pending
    THEN {i \in DOMAIN pending[a] : Hash(pending[a][i]) = h}
    ELSE {}

\* by_hash and pending hold the same transactions, each once in the queue
\* of its sender, and no queue is empty.
IndicesAgree ==
    /\ \A h \in DOMAIN by_hash :
           /\ Hash(by_hash[h]) = h
           /\ Cardinality(PositionsOf(h, by_hash[h].from)) = 1
    /\ \A a \in DOMAIN pending :
           /\ pending[a] # <<>>
           /\ \A i \in DOMAIN pending[a] :
                  /\ pending[a][i].from = a
                  /\ Hash(pending[a][i]) \in DOMAIN by_hash
                  /\ by_hash[Hash(pending[a][i])] = pending[a][i]

\* C29: whenever no pool operation is in progress, the by-hash index and the
\* per-sender queues hold exactly the same transactions, each in the queue
\* of its own sender exactly once, and no sender has an empty queue.
C29_IndicesAgreeBetweenOperations ==
    PoolQuiescent => IndicesAgree

-----------------------------------------------------------------------------
(* The credit of a transfer at the top of the amount range.                *)

\* C30: no balance computation in transfer wraps: when the exact sum of the
\* recipient's balance and the amount exceeds the amount range, transfer
\* returns an error and changes no account, in memory or in the store; it
\* neither stores a wrapped balance nor aborts.
C30_CreditOverflowRefused ==
    [][(TransferStep /\
        BalanceOf(accounts, last'.to) + last'.amount > AmountMax) =>
          /\ last'.res \notin {"Ok", "Panic"}
          /\ accounts' = accounts
          /\ storage' = storage]_vars

-----------------------------------------------------------------------------
(* calculate_state_root (src/state/src/lib.rs).  SHA-256 is taken to be    *)
(* free of collisions: a hash stands for the data it was computed from.    *)

\* The order Vec::sort puts two account hashes in: a fixed total order.
AddrOrder == <<"A", "B", "C", "contractA0", "contractA1", "contractB0",
               "contractB1">>

AddrRank(a) == CHOOSE i \in DOMAIN AddrOrder : AddrOrder[i] = a

\* Sha256 of serde_json::to_vec(account): address, balance and nonce.
account_hash(accts, a) == <<a, accts[a].balance, accts[a].nonce>>

hash_less(x, y) ==
    \/ AddrRank(x[1]) < AddrRank(y[1])
    \/ x[1] = y[1] /\ x[2] < y[2]
    \/ x[1] = y[1] /\ x[2] = y[2] /\ x[3] < y[3]

\* account_hashes.sort()
RECURSIVE sort_hashes(_)
sort_hashes(hashes) ==
    IF hashes = <<>> THEN <<>>
    ELSE LET x == hashes[Len(hashes)]
             out == sort_hashes(SubSeq(hashes, 1, Len(hashes) - 1))
             k == Cardinality({i \in 1..Len(out) : ~hash_less(x, out[i])})
         IN  SubSeq(out, 1, k) \o <<x>> \o SubSeq(out, k + 1, Len(out))

\* calculate_state_root: the hashes of accounts.values(), in the order the
\* map iterates, sorted and hashed together.  Only the in-memory map is
\* read.
calculate_state_root(s, order) ==
    sort_hashes([i \in DOMAIN order |-> account_hash(s.accounts, order[i])])

CalculateStateRoot ==
    \E order \in Orders(DOMAIN accounts) :
        /\ ~poisoned
        /\ last' = [op |-> "calculate_state_root",
                    res |-> calculate_state_root(SM, order)]
        /\ UNCHANGED ledgerVars

RootNext ==
    \/ InitializeGenesis({0}) /\ UNCHANGED nonLedgerVars
    \/ GetAccount /\ UNCHANGED nonLedgerVars
    \/ GetBalance /\ UNCHANGED nonLedgerVars
    \/ GetNonce /\ UNCHANGED nonLedgerVars
    \/ Transfer({TRUE}) /\ UNCHANGED nonLedgerVars
    \/ IncrementNonce({TRUE}) /\ UNCHANGED nonLedgerVars
    \/ CalculateStateRoot /\ UNCHANGED nonLedgerVars

SpecRoot == Init /\ [][RootNext]_vars

\* A step of get_account, get_balance or get_nonce.
ReadStep == last'.op = "read"

\* C31: the state root depends only on the account records of the ledger,
\* not on the order the map iterates in and not on which persisted accounts
\* are loaded in memory: get_account, get_balance and get_nonce never
\* change the root calculate_state_root returns.
C31_ReadsKeepStateRoot ==
    [][ReadStep =>
         \A o \in Orders(DOMAIN accounts), p \in Orders(DOMAIN accounts') :
             calculate_state_root(SM, o) = calculate_state_root(SM', p)]_vars

-----------------------------------------------------------------------------
(* The order in which the pool's operations take its two locks.            *)

\* t holds the write lock l and is waiting for the other lock.
HoldsWaiting(t, l) ==
    /\ mp_lock[l] = t
    /\ pc[t] \in (IF l = "pending" THEN {"am_lock_by_hash"}
                  ELSE {"rm_lock_pending", "cl_lock_pending"})

\* C32: no interleaving of pool operations reaches a state in which one
\* operation holds the pending lock and waits for by_hash while another
\* holds by_hash and waits for pending, so every operation that starts
\* returns.
C32_NoLockCycle ==
    ~ \E t, u \in Threads :
          HoldsWaiting(t, "pending") /\ HoldsWaiting(u, "by_hash")

-----------------------------------------------------------------------------
(* Whose votes reach the finality threshold.                               *)

\* The validators with a recorded vote for block_hash at height; vote
\* records only the votes of validators that are active when they vote.
Supporters(height, block_hash) ==
    {votes[height][i].validator :
        i \in {j \in DOMAIN VotesFor(votes, height) :
                  votes[height][j].block_hash = block_hash}}

\* The block hashes voted for at height.
HashesAt(height) ==
    {VotesFor(votes, height)[i].block_hash : i \in DOMAIN VotesFor(votes, height)}

\* C33: finalize_block(h) returns Ok only if at least
\* (active_count * 2) div 3 + 1 distinct active validators have each a
\* recorded vote for h with one and the same block_hash: repeated votes of
\* one validator do not reach the threshold.
C33_FinalityByDistinctValidators ==
    [][(FinalizeStep /\ last'.res = "Ok") =>
         \E b \in HashesAt(last'.height) :
             Cardinality(Supporters(last'.height, b)) >=
                 required_votes(Len(get_active_validators(validator_set)))]_vars

-----------------------------------------------------------------------------
(* Replay of a transaction that block production has applied.              *)

\* The transfers a production round has applied.
AppliedIn(call) ==
    {call.txs[i] : i \in {j \in DOMAIN call.results :
                             /\ call.txs[j].kind = "Transfer"
                             /\ call.results[j] = "Ok"}}

\* C34: a transaction that block production has applied is never applied a
\* second time: after the round the sender's account nonce exceeds the
\* transaction's nonce, and add_transaction rejects the transaction as nonce
\* too low.
C34_AppliedIsNotReplayable ==
    [][ProduceStep =>
         \A tx \in AppliedIn(last') :
             /\ NonceOf(accounts', tx.from) > tx.nonce
             /\ add_transaction(MP', SM', tx, now', overflow_checks').res
                    = "NonceTooLow"]_vars

-----------------------------------------------------------------------------
(* Several pending transactions of one sender at one nonce.                *)

\* Valid transactions of A at nonce 0 that differ in the gas price, with
\* A's next nonce and a transaction of B.
SameNonceTransactions ==
    { Tx("A", 0, "Transfer", MinGasLimit, 1, "valid"),
      Tx("A", 0, "Transfer", MinGasLimit, 0, "valid"),
      Tx("A", 1, "Transfer", MinGasLimit, 1, "valid"),
      Tx("B", 0, "ContractCall", MinGasLimit, 1, "valid") }

SelectionNext ==
    \/ AddTransactionOf(SameNonceTransactions)
          /\ UNCHANGED <<callerVars, consensusVars>>
    \/ GetTransactionsForBlock /\ UNCHANGED <<callerVars, consensusVars>>
    \/ IncrementNonce({TRUE}) /\ UNCHANGED nonLedgerVars
    \/ Advance(CacheTtl + 1) /\ UNCHANGED nonLedgerVars

SpecSelection == MempoolInitAll /\ [][SelectionNext]_vars

\* C35: one call of get_transactions_for_block never returns two
\* transactions of the same sender, also when the pool holds several
\* transactions of that sender with the same nonce.
C35_OnePerSender ==
    last.op = "get_transactions_for_block" =>
        \A i, j \in DOMAIN last.res :
            last.res[i].from = last.res[j].from => i = j

-----------------------------------------------------------------------------
(* transfer and increment_nonce run by concurrent callers.  A step is one  *)
(* critical section of the accounts lock or one store_state call; the      *)
(* store accepts every write.  No reader of the caches runs here, so each  *)
(* invalidate_cache call of transfer is one step.                          *)

\* transfer, lines 161-190: the accounts write lock.  The balance check,
\* the debit and the credit, both inserts; the lock is dropped.
TrUpdate(t) ==
    /\ Free(t)
    /\ LET from == "A"
           to == "C"
           amount == Unit
           e == transfer_entries(accounts, from, to, amount)
           l == [op |-> "transfer", from |-> from, to |-> to,
                 from_account |-> e.from, to_account |-> e.to, res |-> ""]
       IN  IF transfer_refused(GetOrNew(accounts, from).balance, amount)
           THEN /\ Goto(t, "done", [l EXCEPT !.res = "InsufficientBalance"])
                /\ UNCHANGED <<accounts, storage, balance_cache, nonce_cache>>
           ELSE /\ SetSM([SM EXCEPT !.accounts = e.map])
                /\ Goto(t, "tr_save_from", l)
    /\ UNCHANGED <<now, overflow_checks, poisoned, last, inc_started, inc_done>>

\* transfer, line 193: save_account_to_storage(&from_account), no lock held.
TrSaveFrom(t) ==
    /\ pc[t] = "tr_save_from"
    /\ SetSM(save_account_to_storage(SM, loc[t].from, loc[t].from_account))
    /\ Goto(t, "tr_save_to", loc[t])
    /\ UNCHANGED <<now, overflow_checks, poisoned, last, inc_started, inc_done>>

\* transfer, line 194: save_account_to_storage(&to_account).
TrSaveTo(t) ==
    /\ pc[t] = "tr_save_to"
    /\ SetSM(save_account_to_storage(SM, loc[t].to, loc[t].to_account))
    /\ Goto(t, "tr_inv_from", loc[t])
    /\ UNCHANGED <<now, overflow_checks, poisoned, last, inc_started, inc_done>>

\* transfer, line 197: invalidate_cache(from).
TrInvFrom(t) ==
    /\ pc[t] = "tr_inv_from"
    /\ SetSM(invalidate_cache(SM, loc[t].from))
    /\ Goto(t, "tr_inv_to", loc[t])
    /\ UNCHANGED <<now, overflow_checks, poisoned, last, inc_started, inc_done>>

\* transfer, line 198: invalidate_cache(to); the call returns Ok.
TrInvTo(t) ==
    /\ pc[t] = "tr_inv_to"
    /\ SetSM(invalidate_cache(SM, loc[t].to))
    /\ Goto(t, "done", [loc[t] EXCEPT !.res = "Ok"])
    /\ UNCHANGED <<now, overflow_checks, poisoned, last, inc_started, inc_done>>

PersistNext ==
    \/ \E t \in Threads : TrUpdate(t) /\ UNCHANGED engineVars
    \/ \E t \in Threads : TrSaveFrom(t) /\ UNCHANGED engineVars
    \/ \E t \in Threads : TrSaveTo(t) /\ UNCHANGED engineVars
    \/ \E t \in Threads : TrInvFrom(t) /\ UNCHANGED engineVars
    \/ \E t \in Threads : TrInvTo(t) /\ UNCHANGED engineVars
    \/ \E t \in Threads : InUpdate(t) /\ UNCHANGED engineVars
    \/ \E t \in Threads : InSave(t) /\ UNCHANGED engineVars
    \/ \E t \in Threads : InInvBalance(t) /\ UNCHANGED engineVars
    \/ \E t \in Threads : InInvNonce(t) /\ UNCHANGED engineVars

SpecPersist == NonceInit /\ [][PersistNext]_vars

\* C36: whenever no StateManager operation is in progress, the persisted
\* record of every account of the in-memory map equals its entry in the
\* map, for every interleaving of transfer and increment_nonce calls on the
\* same account.
C36_PersistedEqualsMemory ==
    (\A t \in Threads : Free(t)) =>
        \A a \in DOMAIN accounts :
            a \in DOMAIN storage /\ storage[a] = accounts[a]

-----------------------------------------------------------------------------
(* The account transfer and increment_nonce start from.                    *)

\* The account get_account returns for a.
LedgerAccount(a) == get_account(SM, a).val

\* C37: transfer and increment_nonce see the account get_account returns:
\* transfer checks and debits the balance of from and credits the balance
\* of to as get_account gives them, and increment_nonce adds one to the
\* nonce get_account gives and keeps the balance, also for an account that
\* is persisted and not yet in the in-memory map.
C37_MutationsSeeLedgerAccount ==
    [][/\ (TransferStep /\ last'.from # last'.to
             /\ LedgerAccount(last'.to).balance + last'.amount <= AmountMax) =>
             LET f == last'.from
                 t == last'.to
                 m == last'.amount
             IN  IF LedgerAccount(f).balance < m
                 THEN last'.res = "InsufficientBalance"
                 ELSE /\ last'.res = "Ok"
                      /\ accounts'[f].balance = LedgerAccount(f).balance - m
                      /\ accounts'[t].balance = LedgerAccount(t).balance + m
                      /\ accounts'[f].nonce = LedgerAccount(f).nonce
                      /\ accounts'[t].nonce = LedgerAccount(t).nonce
       /\ (last'.op = "increment_nonce" /\ last'.res = "Ok") =>
             LET a == last'.from
             IN  /\ accounts'[a].nonce = LedgerAccount(a).nonce + 1
                 /\ accounts'[a].balance = LedgerAccount(a).balance]_vars

-----------------------------------------------------------------------------
(* The ledger with a durable store that may refuse a write.                *)

FaultyNext ==
    \/ InitializeGenesis({0}) /\ UNCHANGED nonLedgerVars
    \/ GetBalance /\ UNCHANGED nonLedgerVars
    \/ GetNonce /\ UNCHANGED nonLedgerVars
    \/ TransferOf({"A"}, {"B"}, {Unit}, BOOLEAN) /\ UNCHANGED nonLedgerVars
    \/ IncrementNonce(BOOLEAN) /\ UNCHANGED nonLedgerVars

SpecFaulty == Init /\ [][FaultyNext]_vars

\* A transfer or increment_nonce that failed to persist an account.
FailedPersistStep ==
    /\ last'.op \in {"transfer", "increment_nonce"}
    /\ last'.res = "StorageError"

\* C38: when transfer or increment_nonce returns the error of a failed
\* store_state call, later get_account, get_balance and get_nonce calls
\* return what they would have returned before the call: no debit, credit
\* or nonce increment of the failed call is visible.
C38_FailedPersistLeavesNoTrace ==
    [][FailedPersistStep =>
         \A a \in Addr :
             /\ get_account(SM', a).val = get_account(SM, a).val
             /\ get_balance(SM', a, now').val = get_balance(SM, a, now).val
             /\ get_nonce(SM', a, now').val = get_nonce(SM, a, now).val]_vars

-----------------------------------------------------------------------------
(* The proposer of validator sets built in different orders.               *)

\* The validators of a list, whatever their order.
ValidatorsOf(vs) == {vs[i] : i \in DOMAIN vs}

\* C39: the proposer select_proposer(height) returns depends only on the
\* validators (address, stake, active flag) and the height, not on the order
\* in which add_validator and remove_validator built the set: a call on the
\* validators and the height of an earlier call returns what that call
\* returned, also when validators of equal stake were added in another
\* order in between.
C39_ProposerIndependentOfOrder ==
    [][(/\ last'.op = "select_proposer"
        /\ selected.res.res # "none"
        /\ selected.height = last'.height
        /\ ValidatorsOf(selected.validator_set) = ValidatorsOf(validator_set))
          => last'.res = selected.res]_vars

-----------------------------------------------------------------------------
(* Block production that goes on for ever.  The block holds 100 of the     *)
(* pool's 10,000 transactions; the model scales the block with the pool,   *)
(* to one transaction fewer than the pool holds.                           *)

BlockSlots == MaxSize - 1

\* The width the model keeps of the height the engine advances once a round
\* (a u64 in the code); the rounds themselves are not bounded.
HeightBits == 1

\* A transfer of A at the lowest gas price and a transfer of B that pays
\* more.
LiveTransactions ==
    { Tx("A", 0, "Transfer", MinGasLimit, 0, "valid"),
      Tx("B", 0, "Transfer", MinGasLimit, 1, "valid") }

\* Block production has begun; nothing is submitted from then on.
Producing == last.op = "produce_block"

Submit ==
    /\ ~Producing
    /\ AddTransactionOf(LiveTransactions)

\* The round of every 30 seconds, main lines 146-177.
ProduceRound ==
    \E order \in Orders(DOMAIN pending), okFrom \in BOOLEAN, okTo \in BOOLEAN :
        /\ ~poisoned
        /\ \E c \in {get_transactions_for_block(MP, SM, BlockSlots, order,
                                                 now)} :
           \E r \in {apply_transactions(c.val, c.s, MP, okFrom, okTo,
                                         overflow_checks)} :
               /\ SetSM(r.s)
               /\ SetMP(r.m)
               /\ poisoned' = r.panicked
               /\ block_height' = IF r.panicked THEN block_height
                                  ELSE (block_height + 1) % 2 ^ HeightBits
               /\ last' = [op |-> "produce_block", txs |-> c.val,
                           results |-> r.results]
        /\ UNCHANGED <<now, overflow_checks, mp_lock, callerVars,
                       validator_set, current_height, current_proposer,
                       finalized_height, pending_proposals, votes,
                       finalized_blocks, selected>>

LiveNext ==
    \/ Submit /\ UNCHANGED <<callerVars, consensusVars>>
    \/ ProduceRound

\* The proposer task never stops: its loop has no exit.
SpecLive == MempoolInitAll /\ [][LiveNext]_vars /\ WF_vars(ProduceRound)

\* The sender's balance covers the amount of tx.
Covered(tx) == BalanceOf(accounts, tx.from) >= tx.amount

\* A production round has just taken tx up.
TakenUp(tx) == Producing /\ ReturnedIn(tx, last.txs)

\* C40: under periodic block production and with no further submissions,
\* every pending transaction whose nonce equals its sender's account nonce
\* and whose sender's balance covers the amount is eventually applied and
\* removed from the pool, whatever pending transactions with a higher gas
\* price there are, also ones whose application fails in every round.  To
\* be applied a transaction has to be taken up by a round: the formula asks
\* for no more than that.
C40_EligibleEventuallyApplied ==
    \A tx \in LiveTransactions :
        (Producing /\ tx \in Pool /\ NonceEligible(tx) /\ Covered(tx))
            ~> (tx \notin Pool \/ TakenUp(tx))

=============================================================================
